---- MODULE Spec2Model ----
(***************************************************************************)
(* Verification model of the Modbus simulation and acquisition platform.   *)
(*                                                                         *)
(* SpecProto  : the protocol engine -- the Modbus TCP server               *)
(*              (internal/modbus), the RTU stream handler of the mocktty   *)
(*              endpoint and the RTU stream handler of the single-server   *)
(*              simulator, each serving one connection/stream.             *)
(* SpecCsv    : the CSV driver of one slave -- the goroutine Manager.Run   *)
(*              starts, and simulator.Start/nextRow of cmd/server -- and   *)
(*              Manager.Snapshot of the slave's point.                     *)
(* SpecFleet  : Manager.Run -- the start of every slave (semaphore, bind   *)
(*              retries), the accept loops and connection workers of the   *)
(*              servers, cancellation and shutdown.                        *)
(* SpecPoller : Collector.Run -- the connect retries of one device poller, *)
(*              its poll cycles, the reconnect and retry of a failed read. *)
(* SpecPool   : the collectors' Manager.Run -- the worker slots of the     *)
(*              pollers, the grace period and the shutdown of the storage. *)
(* SpecStore  : Storage -- Handle, the queue, the consumer and its sinks,  *)
(*              Close.                                                     *)
(* SpecDedup  : the dedup wrapper Manager.Run puts before Storage.Handle,  *)
(*              with its ValueCache.                                       *)
(* SpecDb     : the modbusdb client over the GORM tables servers, devices  *)
(*              and point_values -- the CRUD calls, LatestPoints and       *)
(*              DeviceHistory.                                             *)
(* SpecWords  : a two-register read of the TCP server beside the word-by-  *)
(*              word write of a float32 point by the CSV driver.           *)
(* SpecStart  : the start semaphore of Manager.Run with more servers than  *)
(*              slots; SpecStartFair and SpecPoolFair add weak fairness of *)
(*              the goroutines' steps.                                     *)
(* SpecSeed   : Manager.initDatabaseFromConfig on the SQL tables servers   *)
(*              and devices.                                               *)
(* SpecSim    : cmd/server run -- newSimulator, enableRTUModeFromConfig,   *)
(*              Start, simulator.Close -- and the server's TCP listener.   *)
(*                                                                         *)
(* Each specification moves its own variables and leaves the others at the *)
(* values its initial predicate gives them.                                *)
(*                                                                         *)
(* Go slices are 0-based; sequences here are 1-based.  At(s, i) reads the  *)
(* element the Go code calls s[i].                                         *)
(*                                                                         *)
(* The four 65536-entry tables are kept sparsely: a bit table is the set   *)
(* of addresses that hold true, a word table is a function defined on the  *)
(* addresses that hold a non-zero word.  Every other address reads as the  *)
(* zero value, as in the zero-initialised Go slices.                       *)
(***************************************************************************)
EXTENDS Integers, Sequences, FiniteSets, TLC

VARIABLES
    impl,               \* which protocol engine this run exercises
    Coils,              \* Server.Coils / store.coils / rtuStore.coils
    DiscreteInputs,     \* Server.DiscreteInputs / store.discreteInputs / rtuStore.discretes
    HoldingRegisters,   \* Server.HoldingRegisters / store.holding / rtuStore.holding
    InputRegisters,     \* Server.InputRegisters / store.input / rtuStore.input
    handler,            \* the connection/stream handler: "running", "returned", "panicked"
    last,               \* the last event handled: request bytes and response bytes
    nops,               \* events handled so far
    driver,             \* which CSV driver runs: "manager" or "simulator"
    point,              \* the configured point the CSV column drives
    dataRows,           \* rows / s.dataRows: the column's value in each CSV row
    rowIndex,           \* idx of the manager's driver goroutine / s.rowIndex
    ticks,              \* ticks of the driver's ticker consumed so far
    applied,            \* the row indexes applied so far, in order
    shown,              \* what the driven point showed after each application
    csvState,           \* the driver: "new", "none", "running", "stopped"
    snap,               \* the Snapshot() of the manager a caller holds, if any
    ctxDone,            \* ctx.Done() is closed
    slave,              \* per configured server: its settings and its goroutines
    sem,                \* slots of the start semaphore that are taken
    servers,            \* keys of m.servers
    runPc,              \* Manager.Run: "new", "waiting", "returned"
    elapsed,            \* whole seconds since the cancellation
    collector,          \* one Collector: its device, the position of Run, what it did last
    pool,               \* the collectors' Manager.Run: its pollers, the worker slots, its shutdown
    storage,            \* one Storage: the queue, the consumer, the sinks
    dedup,              \* the dedup wrapper of Manager.Run: its ValueCache, the clock
    db,                 \* one modbusdb.Client: the three tables, the last call and its result
    sim                 \* cmd/server: run, its simulator and the listener of its modbus.Server

protoVars == <<impl, Coils, DiscreteInputs, HoldingRegisters, InputRegisters,
               handler, last, nops>>

protoOnly == <<impl, handler, last, nops>>

csvVars == <<driver, point, dataRows, rowIndex, ticks, applied, shown, csvState, snap>>

fleetVars == <<slave, sem, servers, runPc, elapsed>>

acqVars == <<collector, pool, storage, dedup, db, sim>>

vars == <<impl, Coils, DiscreteInputs, HoldingRegisters, InputRegisters,
          handler, last, nops, csvVars, ctxDone, fleetVars, acqVars>>

----------------------------------------------------------------------------
(* Bounds of the model *)

\* events (requests and register writes by the driver) handled in one run
MaxOps == 2

\* data rows of the CSV file, and ticks of the driver's ticker in one run
MaxRows == 3
MaxTicks == 4

\* servers in the fleet's configuration, and client connections one server
\* holds at a time
NumServers == 2
MaxConns == 1

----------------------------------------------------------------------------
(* Program constants *)

TableSize == 65536

\* sem := make(chan struct{}, 16)
StartSemCap == 16

\* the grace period the collector's manager gives its workers (seconds); the
\* window the fleet manager's shutdown is measured against
GraceSeconds == 5
MaxReadBits == 2000
MaxReadRegs == 125
MaxWriteCoils == 1968
MaxWriteRegs == 123

functionReadCoils == 1
functionReadDiscreteInputs == 2
functionReadHoldingRegs == 3
functionReadInputRegs == 4

exceptionIllegalFunction == 1
exceptionIllegalDataAddr == 2
exceptionIllegalDataVal == 3

----------------------------------------------------------------------------
(* Bytes, words and bit operations *)

At(s, i) == s[i + 1]

\* s[lo:hi] of Go
Slice(s, lo, hi) == [k \in 1..(hi - lo) |-> s[lo + k]]

Pow2(n) == CASE n = 0 -> 1 [] n = 1 -> 2 [] n = 2 -> 4 [] n = 3 -> 8
             [] n = 4 -> 16 [] n = 5 -> 32 [] n = 6 -> 64 [] n = 7 -> 128
             [] n = 8 -> 256 [] n = 16 -> 65536

RECURSIVE BitXor(_, _)
BitXor(a, b) ==
    IF a = 0 THEN b
    ELSE IF b = 0 THEN a
    ELSE (((a % 2) + (b % 2)) % 2) + 2 * BitXor(a \div 2, b \div 2)

RECURSIVE BitOr(_, _)
BitOr(a, b) ==
    IF a = 0 THEN b
    ELSE IF b = 0 THEN a
    ELSE (IF (a % 2) = 1 \/ (b % 2) = 1 THEN 1 ELSE 0) + 2 * BitOr(a \div 2, b \div 2)

\* binary.BigEndian.Uint16(b[i:i+2])
BigEndianUint16(b, i) == At(b, i) * 256 + At(b, i + 1)

\* binary.BigEndian.PutUint16: the two bytes of a 16-bit word, high first
BigEndianBytes(w) == <<(w % 65536) \div 256, (w % 256)>>

\* binary.LittleEndian.Uint16(b[i:i+2])
LittleEndianUint16(b, i) == At(b, i) + At(b, i + 1) * 256

\* binary.LittleEndian.PutUint16: the two bytes of a 16-bit word, low first
LittleEndianBytes(w) == <<(w % 256), (w % 65536) \div 256>>

----------------------------------------------------------------------------
(* The register space *)

GetBit(t, a) == a \in t

PutBit(t, a, v) == IF v THEN t \cup {a} ELSE t \ {a}

GetReg(t, a) == IF a \in DOMAIN t THEN t[a] ELSE 0

PutReg(t, a, v) ==
    IF v = 0
    THEN [x \in (DOMAIN t) \ {a} |-> t[x]]
    ELSE [x \in (DOMAIN t) \cup {a} |-> IF x = a THEN v ELSE t[x]]

EmptyRegs == [x \in {} |-> 0]

----------------------------------------------------------------------------
(* internal/modbus: the Modbus TCP server *)

\* PackedByte with the bits packed from the high end of each byte
PackedByteMsbFirst(source, start, quantity, j) ==
    LET Bit(k) == IF 8 * j + k < quantity /\ GetBit(source, start + 8 * j + k)
                  THEN Pow2(7 - k) ELSE 0
    IN  Bit(0) + Bit(1) + Bit(2) + Bit(3) + Bit(4) + Bit(5) + Bit(6) + Bit(7)

\* result[i/8] |= 1 << (uint(i) % 8) for every i < quantity with source[start+i]:
\* byte j of the result collects the bits i = 8j .. 8j+7 that are below quantity
PackedByte(source, start, quantity, j) ==
    LET Bit(k) == IF 8 * j + k < quantity /\ GetBit(source, start + 8 * j + k)
                  THEN Pow2(k) ELSE 0
    IN  Bit(0) + Bit(1) + Bit(2) + Bit(3) + Bit(4) + Bit(5) + Bit(6) + Bit(7)

PackBits(source, start, quantity) ==
    [j \in 1..((quantity + 7) \div 8) |-> PackedByte(source, start, quantity, j - 1)]

\* binary.BigEndian.PutUint16(result[i*2:(i+1)*2], source[start+i]) for i < quantity
PackRegs(source, start, quantity) ==
    [k \in 1..(2 * quantity) |->
        At(BigEndianBytes(GetReg(source, start + ((k - 1) \div 2))), (k - 1) % 2)]

readBits(source, pdu) ==
    IF Len(pdu) < 5 THEN [data |-> <<>>, err |-> "errInvalidPDULen"]
    ELSE LET start == BigEndianUint16(pdu, 1)
             quantity == BigEndianUint16(pdu, 3)
         IN  IF quantity = 0 \/ quantity > MaxReadBits
             THEN [data |-> <<>>, err |-> "errInvalidQty"]
             ELSE IF start + quantity > TableSize
             THEN [data |-> <<>>, err |-> "errOutOfRange"]
             ELSE [data |-> PackBits(source, start, quantity), err |-> "nil"]

readRegisters(source, pdu) ==
    IF Len(pdu) < 5 THEN [data |-> <<>>, err |-> "errInvalidPDULen"]
    ELSE LET start == BigEndianUint16(pdu, 1)
             quantity == BigEndianUint16(pdu, 3)
         IN  IF quantity = 0 \/ quantity > MaxReadRegs
             THEN [data |-> <<>>, err |-> "errInvalidQty"]
             ELSE IF start + quantity > TableSize
             THEN [data |-> <<>>, err |-> "errOutOfRange"]
             ELSE [data |-> PackRegs(source, start, quantity), err |-> "nil"]

exceptionResponse(function, code) ==
    <<(IF function = 0 THEN 128 ELSE BitOr(function, 128)), code>>

errToCode(err) ==
    CASE err = "errOutOfRange" -> exceptionIllegalDataAddr
      [] err = "errInvalidQty" -> exceptionIllegalDataVal
      [] err = "errInvalidPDULen" -> exceptionIllegalDataVal
      [] OTHER -> exceptionIllegalFunction

\* the four read cases of handlePDU share this tail
ReadReply(function, r) ==
    IF r.err # "nil" THEN exceptionResponse(function, errToCode(r.err))
    ELSE <<function, Len(r.data) % 256>> \o r.data

handlePDU(pdu) ==
    IF Len(pdu) = 0 THEN exceptionResponse(0, exceptionIllegalFunction)
    ELSE LET function == At(pdu, 0) IN
         CASE function = functionReadCoils ->
                ReadReply(function, readBits(Coils, pdu))
           [] function = functionReadDiscreteInputs ->
                ReadReply(function, readBits(DiscreteInputs, pdu))
           [] function = functionReadHoldingRegs ->
                ReadReply(function, readRegisters(HoldingRegisters, pdu))
           [] function = functionReadInputRegs ->
                ReadReply(function, readRegisters(InputRegisters, pdu))
           [] OTHER -> exceptionResponse(function, exceptionIllegalFunction)

\* ResponseHeader with the request's protocol ID left in place
ResponseHeaderKeepsProtocol(header, response) ==
    Slice(header, 0, 4)
        \o BigEndianBytes((Len(response) + 1) % 65536) \o <<At(header, 6)>>

\* the header handleConnection writes back: the request's 7 bytes with
\* bytes 2..3 zeroed, bytes 4..5 = len(response)+1 and byte 6 = unitID
ResponseHeader(header, response) ==
    Slice(header, 0, 2) \o BigEndianBytes(0)
        \o BigEndianBytes((Len(response) + 1) % 65536) \o <<At(header, 6)>>

\* one iteration of handleConnection's loop on one request (header, pdu);
\* the bytes written to the connection, <<>> when the iteration writes none
handleConnection(header, pdu) ==
    LET length == BigEndianUint16(header, 4) IN
    IF length = 0 THEN <<>>
    ELSE IF length - 1 <= 0 THEN <<>>
    ELSE LET response == handlePDU(pdu) IN
         IF Len(response) = 0 THEN <<>>
         ELSE ResponseHeader(header, response) \o response

----------------------------------------------------------------------------
(* CRC-16 (both RTU programs define the same crc16Modbus) *)

\* x ^ 0xA001 for x < 0x8000: bit 15 is set, bits 13 and 0 are flipped
XorA001(x) ==
    x + 32768 + (IF ((x \div 8192) % 2) = 1 THEN -8192 ELSE 8192)
      + (IF (x % 2) = 1 THEN -1 ELSE 1)

\* one pass of the inner loop: shift right, XOR 0xA001 when the bit shifted
\* out is 1
CrcShift(crc) == IF (crc % 2) # 0 THEN XorA001(crc \div 2) ELSE crc \div 2

\* crc ^= uint16(b): only the low byte changes; then the inner loop's eight
\* passes
CrcByte(crc, b) ==
    CrcShift(CrcShift(CrcShift(CrcShift(
        CrcShift(CrcShift(CrcShift(CrcShift(
            (crc \div 256) * 256 + BitXor(crc % 256, b)))))))))

\* the outer loop over the bytes, in order, starting from 0xFFFF.  fold[<<c, lo,
\* hi>>] is the CRC after data[lo..hi] starting from c; the range is halved only
\* to keep the evaluation shallow.
\* crc16Modbus with the register starting from 0
crc16ModbusFromZero(data) ==
    LET fold[t \in Nat \X Nat \X Nat] ==
            IF t[2] > t[3] THEN t[1]
            ELSE IF t[2] = t[3] THEN CrcByte(t[1], data[t[2]])
            ELSE LET mid == (t[2] + t[3]) \div 2
                 IN  fold[<<fold[<<t[1], t[2], mid>>], mid + 1, t[3]>>]
    IN  fold[<<0, 1, Len(data)>>]

crc16Modbus(data) ==
    LET fold[t \in Nat \X Nat \X Nat] ==
            IF t[2] > t[3] THEN t[1]
            ELSE IF t[2] = t[3] THEN CrcByte(t[1], data[t[2]])
            ELSE LET mid == (t[2] + t[3]) \div 2
                 IN  fold[<<fold[<<t[1], t[2], mid>>], mid + 1, t[3]>>]
    IN  fold[<<65535, 1, Len(data)>>]

\* address + PDU followed by the CRC, low byte first
WithCrc(out) == out \o LittleEndianBytes(crc16Modbus(out))

----------------------------------------------------------------------------
(* cmd/mocktty: the RTU endpoint (RTU over TCP, or a serial port) *)

RtuOk(resp, coils, holding) ==
    [resp |-> resp, coils |-> coils, holding |-> holding, panic |-> FALSE]

readBitsRTU(src, start, qty) ==
    IF qty = 0 \/ qty > MaxReadBits THEN [data |-> <<>>, err |-> "invalid qty"]
    ELSE IF start + qty > TableSize THEN [data |-> <<>>, err |-> "out of range"]
    ELSE [data |-> PackBits(src, start, qty), err |-> "nil"]

readRegs(src, start, qty) ==
    IF qty = 0 \/ qty > MaxReadRegs THEN [data |-> <<>>, err |-> "invalid qty"]
    ELSE IF start + qty > TableSize THEN [data |-> <<>>, err |-> "out of range"]
    ELSE [data |-> PackRegs(src, start, qty), err |-> "nil"]

writeSingleCoil(dst, addr, value) ==
    IF addr >= TableSize THEN [dst |-> dst, err |-> "out of range"]
    ELSE IF value # 65280 /\ value # 0 THEN [dst |-> dst, err |-> "invalid value"]
    ELSE [dst |-> PutBit(dst, addr, value = 65280), err |-> "nil"]

writeSingleReg(dst, addr, value) ==
    IF addr >= TableSize THEN [dst |-> dst, err |-> "out of range"]
    ELSE [dst |-> PutReg(dst, addr, value), err |-> "nil"]

\* (payload[i/8] >> (uint(i) % 8)) & 0x01
PayloadBit(payload, i) == (At(payload, i \div 8) \div Pow2(i % 8)) % 2

\* dst[start+i] = bit i of the payload, for i = 0 .. n-1
StoreBits(dst, start, n, payload) ==
    (dst \ {start + i : i \in 0..(n - 1)})
        \cup {start + i : i \in {k \in 0..(n - 1) : PayloadBit(payload, k) = 1}}

\* The loop indexes payload[i/8] without a length check: with fewer than
\* ceil(qty/8) payload bytes it stores the bits it has and then the index is out
\* of range, which panics (panic |-> TRUE).
writeMultipleCoils(dst, start, qty, payload) ==
    IF qty = 0 \/ qty > MaxWriteCoils
    THEN [dst |-> dst, err |-> "invalid qty", panic |-> FALSE]
    ELSE IF start + qty > TableSize
    THEN [dst |-> dst, err |-> "out of range", panic |-> FALSE]
    ELSE LET n == IF 8 * Len(payload) < qty THEN 8 * Len(payload) ELSE qty
         IN  [dst |-> StoreBits(dst, start, n, payload), err |-> "nil",
              panic |-> n < qty]

\* StoreRegs with the payload words taken low byte first
StoreRegsLittleEndian(dst, start, n, payload) ==
    LET written == start..(start + n - 1)
        Word(a) == LittleEndianUint16(payload, 2 * (a - start))
        dom == ((DOMAIN dst) \ written) \cup {a \in written : Word(a) # 0}
    IN  [x \in dom |-> IF x \in written THEN Word(x) ELSE dst[x]]

\* dst[start+i] = payload word i, for i = 0 .. n-1
StoreRegs(dst, start, n, payload) ==
    LET written == start..(start + n - 1)
        Word(a) == BigEndianUint16(payload, 2 * (a - start))
        dom == ((DOMAIN dst) \ written) \cup {a \in written : Word(a) # 0}
    IN  [x \in dom |-> IF x \in written THEN Word(x) ELSE dst[x]]

writeMultipleRegs(dst, start, qty, payload) ==
    IF qty = 0 \/ qty > MaxWriteRegs THEN [dst |-> dst, err |-> "invalid qty"]
    ELSE IF Len(payload) # 2 * qty THEN [dst |-> dst, err |-> "invalid byte count"]
    ELSE IF start + qty > TableSize THEN [dst |-> dst, err |-> "out of range"]
    ELSE [dst |-> StoreRegs(dst, start, qty, payload), err |-> "nil"]

\* exception(fn, _ error): the error is not looked at
exception(fn, err) == <<BitOr(fn, 128), 2>>

\* start(2) + qty(2) echoed by the write-multiple responses
EchoStartQty(fn, start, qty) == <<fn>> \o BigEndianBytes(start) \o BigEndianBytes(qty)

handleRTUPDU(pdu) ==
    IF Len(pdu) < 1 THEN RtuOk(<<>>, Coils, HoldingRegisters)
    ELSE LET fn == At(pdu, 0) IN
    CASE fn \in {1, 2, 3, 4} ->
           IF Len(pdu) < 5 THEN RtuOk(<<>>, Coils, HoldingRegisters)
           ELSE LET start == BigEndianUint16(pdu, 1)
                    qty == BigEndianUint16(pdu, 3)
                    r == CASE fn = 1 -> readBitsRTU(Coils, start, qty)
                           [] fn = 2 -> readBitsRTU(DiscreteInputs, start, qty)
                           [] fn = 3 -> readRegs(HoldingRegisters, start, qty)
                           [] fn = 4 -> readRegs(InputRegisters, start, qty)
                IN  IF r.err # "nil"
                    THEN RtuOk(exception(fn, r.err), Coils, HoldingRegisters)
                    ELSE RtuOk(<<fn, Len(r.data) % 256>> \o r.data,
                               Coils, HoldingRegisters)
      [] fn = 5 ->
           IF Len(pdu) < 5 THEN RtuOk(<<>>, Coils, HoldingRegisters)
           ELSE LET w == writeSingleCoil(Coils, BigEndianUint16(pdu, 1),
                                         BigEndianUint16(pdu, 3))
                IN  IF w.err # "nil"
                    THEN RtuOk(exception(fn, w.err), w.dst, HoldingRegisters)
                    ELSE RtuOk(<<fn>> \o Slice(pdu, 1, 5), w.dst, HoldingRegisters)
      [] fn = 6 ->
           IF Len(pdu) < 5 THEN RtuOk(<<>>, Coils, HoldingRegisters)
           ELSE LET w == writeSingleReg(HoldingRegisters, BigEndianUint16(pdu, 1),
                                        BigEndianUint16(pdu, 3))
                IN  IF w.err # "nil"
                    THEN RtuOk(exception(fn, w.err), Coils, w.dst)
                    ELSE RtuOk(<<fn>> \o Slice(pdu, 1, 5), Coils, w.dst)
      [] fn = 15 ->
           IF Len(pdu) < 6 THEN RtuOk(<<>>, Coils, HoldingRegisters)
           ELSE IF Len(pdu) # 6 + At(pdu, 5) THEN RtuOk(<<>>, Coils, HoldingRegisters)
           ELSE LET start == BigEndianUint16(pdu, 1)
                    qty == BigEndianUint16(pdu, 3)
                    w == writeMultipleCoils(Coils, start, qty, Slice(pdu, 6, Len(pdu)))
                IN  IF w.panic
                    THEN [resp |-> <<>>, coils |-> w.dst,
                          holding |-> HoldingRegisters, panic |-> TRUE]
                    ELSE IF w.err # "nil"
                    THEN RtuOk(exception(fn, w.err), w.dst, HoldingRegisters)
                    ELSE RtuOk(EchoStartQty(fn, start, qty), w.dst, HoldingRegisters)
      [] fn = 16 ->
           IF Len(pdu) < 6 THEN RtuOk(<<>>, Coils, HoldingRegisters)
           ELSE IF Len(pdu) # 6 + At(pdu, 5) THEN RtuOk(<<>>, Coils, HoldingRegisters)
           ELSE LET start == BigEndianUint16(pdu, 1)
                    qty == BigEndianUint16(pdu, 3)
                    w == writeMultipleRegs(HoldingRegisters, start, qty,
                                           Slice(pdu, 6, Len(pdu)))
                IN  IF w.err # "nil"
                    THEN RtuOk(exception(fn, w.err), Coils, w.dst)
                    ELSE RtuOk(EchoStartQty(fn, start, qty), Coils, w.dst)
      [] OTHER -> RtuOk(<<BitOr(fn, 128), 1>>, Coils, HoldingRegisters)

\* what one iteration of a stream loop leaves behind
Dropped == [out |-> <<>>, coils |-> Coils, holding |-> HoldingRegisters,
            status |-> "continue"]

Returned == [out |-> <<>>, coils |-> Coils, holding |-> HoldingRegisters,
             status |-> "return"]

\* address + response PDU + CRC written to the stream; a panic inside
\* handleRTUPDU unwinds before anything is written
Answer(address, r) ==
    IF r.panic
    THEN [out |-> <<>>, coils |-> r.coils, holding |-> r.holding, status |-> "panic"]
    ELSE [out |-> WithCrc(<<address>> \o r.resp), coils |-> r.coils,
          holding |-> r.holding, status |-> "continue"]

\* one iteration of handleStream's loop on the bytes of one frame
handleStream(frame, expectSlave) ==
    LET address == At(frame, 0)
        fn == At(frame, 1)
    IN  CASE fn \in {1, 2, 3, 4, 5, 6} ->
               LET rest == Slice(frame, 2, 8)
                   reqNoCRC == <<address, fn>> \o Slice(rest, 0, Len(rest) - 2)
                   crcCalc == crc16Modbus(reqNoCRC)
                   crcRecv == LittleEndianUint16(rest, Len(rest) - 2)
               IN  IF crcCalc # crcRecv THEN Dropped
                   ELSE IF expectSlave # 0 /\ address # expectSlave THEN Dropped
                   ELSE Answer(address,
                               handleRTUPDU(<<fn>> \o Slice(rest, 0, Len(rest) - 2)))
          [] fn \in {15, 16} ->
               LET hdr == Slice(frame, 2, 7)
                   byteCount == At(hdr, 4)
                   payload == Slice(frame, 7, 7 + byteCount)
                   crcBytes == Slice(frame, 7 + byteCount, 9 + byteCount)
                   req == <<address, fn>> \o hdr \o payload
                   crcCalc == crc16Modbus(req)
                   crcRecv == LittleEndianUint16(crcBytes, 0)
               IN  IF crcCalc # crcRecv THEN Dropped
                   ELSE IF expectSlave # 0 /\ address # expectSlave THEN Dropped
                   ELSE Answer(address, handleRTUPDU(<<fn>> \o hdr \o payload))
          [] OTHER -> Returned

----------------------------------------------------------------------------
(* cmd/server: the single-server simulator in RTU mode.  Its PDU helpers    *)
(* (rtuReadBits .. rtuWriteMultipleRegs, rtuException, handleRTUPDU) are    *)
(* the mocktty ones under other names, statement for statement, and are     *)
(* modelled by the definitions above.                                      *)

\* one iteration of rtuStream's loop on the bytes of one frame
rtuStream(frame) ==
    LET addr == At(frame, 0)
        fn == At(frame, 1)
    IN  CASE fn \in {1, 2, 3, 4, 5, 6} ->
               LET rest == Slice(frame, 2, 8)
                   reqNoCRC == <<addr, fn>> \o Slice(rest, 0, 4)
               IN  IF crc16Modbus(reqNoCRC) # LittleEndianUint16(rest, 4) THEN Dropped
                   ELSE Answer(addr, handleRTUPDU(<<fn>> \o Slice(rest, 0, 4)))
          [] fn \in {15, 16} ->
               LET hdr == Slice(frame, 2, 7)
                   bc == At(hdr, 4)
                   payload == Slice(frame, 7, 7 + bc)
                   crcB == Slice(frame, 7 + bc, 9 + bc)
                   req == <<addr, fn>> \o hdr \o payload
               IN  IF crc16Modbus(req) # LittleEndianUint16(crcB, 0) THEN Dropped
                   ELSE Answer(addr, handleRTUPDU(<<fn>> \o hdr \o payload))
          [] OTHER -> Returned

----------------------------------------------------------------------------
(* The requests the clients send *)

\* the slave ID the endpoint is configured with (loadConfig's default)
SlaveID == 1

ReadPDU(fn, start, qty) == <<fn>> \o BigEndianBytes(start) \o BigEndianBytes(qty)

WriteSinglePDU(fn, addr, value) ==
    <<fn>> \o BigEndianBytes(addr) \o BigEndianBytes(value)

WriteMultiplePDU(fn, start, qty, payload) ==
    <<fn>> \o BigEndianBytes(start) \o BigEndianBytes(qty) \o <<Len(payload)>>
        \o payload

Fill(n, b) == [k \in 1..n |-> b]

\* <<start, quantity>> of the read requests, by function code
ReadArgs(fn) ==
    CASE fn = 1 -> {<<0, 4>>, <<0, 10>>, <<0, 0>>, <<0, MaxReadBits>>,
                    <<0, MaxReadBits + 1>>, <<65535, 1>>, <<65535, 2>>}
      [] fn = 2 -> {<<0, 4>>, <<65535, 1>>, <<0, MaxReadBits + 1>>}
      [] fn = 3 -> {<<0, 2>>, <<0, 10>>, <<100, 3>>, <<0, 0>>, <<0, MaxReadRegs>>,
                    <<0, MaxReadRegs + 1>>, <<65535, 1>>, <<65535, 2>>}
      [] fn = 4 -> {<<200, 1>>, <<65535, 1>>, <<65535, 2>>}

ReadPDUs == UNION {{ReadPDU(fn, a[1], a[2]) : a \in ReadArgs(fn)} : fn \in 1..4}

WriteSinglePDUs ==
    {WriteSinglePDU(5, 0, v) : v \in {65280, 0, 1}}
        \cup {WriteSinglePDU(5, 65535, 65280), WriteSinglePDU(6, 0, 43981),
              WriteSinglePDU(6, 100, 0), WriteSinglePDU(6, 65535, 4660)}

\* <<start, quantity, payload>> of the write-multiple requests
WriteCoilsArgs ==
    {<<0, 4, <<5>>>>, <<0, 10, <<170, 1>>>>, <<0, 0, <<>>>>,
     <<0, MaxWriteCoils, Fill(246, 0)>>, <<0, MaxWriteCoils + 1, <<255>>>>,
     <<65535, 2, <<3>>>>, <<65535, 1, <<1>>>>, <<0, 10, <<255>>>>}

WriteRegsArgs ==
    {<<0, 2, <<18, 52, 171, 205>>>>, <<100, 1, <<0, 0>>>>, <<0, 0, <<>>>>,
     <<0, MaxWriteRegs, Fill(246, 0)>>, <<0, MaxWriteRegs + 1, <<0, 9>>>>,
     <<65535, 2, <<0, 1, 0, 2>>>>, <<65535, 1, <<0, 9>>>>, <<0, 2, <<0, 1>>>>}

WriteMultiplePDUs ==
    {WriteMultiplePDU(15, a[1], a[2], a[3]) : a \in WriteCoilsArgs}
        \cup {WriteMultiplePDU(16, a[1], a[2], a[3]) : a \in WriteRegsArgs}

\* function codes outside 0x01-0x06, 0x0F, 0x10
UnknownFunctions == {0, 7, 131}

\* Modbus TCP: PDUs of any length, the server reads length-1 bytes
TcpPDUs ==
    ReadPDUs
        \cup {<<3>>, <<3, 0, 100, 0, 3, 9, 9>>}
        \cup {WriteSinglePDU(5, 0, 65280), WriteSinglePDU(6, 0, 43981),
              WriteMultiplePDU(15, 0, 4, <<5>>),
              WriteMultiplePDU(16, 0, 2, <<18, 52, 171, 205>>),
              WriteMultiplePDU(16, 0, MaxWriteRegs + 1, <<0, 9>>)}
        \cup {<<fn>> : fn \in UnknownFunctions}
        \cup {<<43, 14, 1, 0>>}

\* <<transaction ID, protocol ID, unit ID>> of the MBAP headers
TcpHeaderFields == {<<4660, 0, 1>>, <<65535, 5, 255>>, <<0, 0, 0>>}

MbapHeader(f, length) ==
    BigEndianBytes(f[1]) \o BigEndianBytes(f[2]) \o BigEndianBytes(length) \o <<f[3]>>

\* a request is <<header, pdu>>; a header whose length field is 0 or 1
\* announces no PDU
TcpRequests ==
    {<<MbapHeader(f, Len(pdu) + 1), pdu>> : f \in {<<4660, 0, 1>>}, pdu \in TcpPDUs}
        \cup {<<MbapHeader(f, Len(pdu) + 1), pdu>> :
                f \in TcpHeaderFields,
                pdu \in {ReadPDU(3, 100, 3), <<7>>}}
        \cup {<<MbapHeader(f, n), <<>>>> : f \in TcpHeaderFields, n \in {0, 1}}

\* RTU: the PDUs whose frame length the stream reader derives
RtuPDUs == ReadPDUs \cup WriteSinglePDUs \cup WriteMultiplePDUs

RtuFrame(address, pdu) == WithCrc(<<address>> \o pdu)

\* the same frame with a CRC that does not verify
BadCrcFrame(address, pdu) ==
    <<address>> \o pdu
        \o LittleEndianBytes((crc16Modbus(<<address>> \o pdu) + 1) % 65536)

\* frames that are also sent to another address and with a bad CRC
ProbePDUs == {ReadPDU(3, 100, 3), WriteSinglePDU(6, 0, 43981)}

OtherAddresses == {0, 2}

RtuFrames ==
    {RtuFrame(SlaveID, pdu) : pdu \in RtuPDUs}
        \cup {RtuFrame(a, pdu) : a \in OtherAddresses, pdu \in ProbePDUs}
        \cup {BadCrcFrame(SlaveID, pdu) : pdu \in ProbePDUs}
        \cup {BadCrcFrame(2, ReadPDU(3, 100, 3))}
        \cup {<<SlaveID, fn>> : fn \in UnknownFunctions}
        \cup {<<2, 7>>}

\* the writes of the CSV driver and of the seeding code
SetAddresses == {0, 65535}
SetWords == {43981}

----------------------------------------------------------------------------
(* SpecProto: one protocol engine, one connection or stream *)

tables == <<Coils, DiscreteInputs, HoldingRegisters, InputRegisters>>

\* no CSV driver in this run
\* no Snapshot() is held
NoSnapshot == [RegisterType |-> "none"]

CsvParked ==
    /\ driver = "manager"
    /\ point = [regType |-> "holding", dataType |-> "", scale |-> 0, offset |-> 0,
                address |-> 0]
    /\ dataRows = <<>>
    /\ rowIndex = 0
    /\ ticks = 0
    /\ applied = <<>>
    /\ shown = <<>>
    /\ csvState = "none"
    /\ snap = NoSnapshot

\* no fleet in this run
FleetParked ==
    /\ slave = <<>>
    /\ sem = 0
    /\ servers = {}
    /\ runPc = "new"
    /\ elapsed = 0

\* no collector, no collectors' manager and no storage in this run
CollectorParked == collector = [pc |-> "off"]

PoolParked == pool = [pc |-> "off"]

StorageParked == storage = [pc |-> "off"]

DedupParked == dedup = [pc |-> "off"]

DbParked == db = [pc |-> "off"]

SimParked == sim = [pc |-> "off"]

AcqParked ==
    /\ CollectorParked
    /\ PoolParked
    /\ StorageParked
    /\ DedupParked
    /\ DbParked
    /\ SimParked

\* what the steps of the protocol engine leave alone
outsideProto == <<csvVars, ctxDone, fleetVars, acqVars>>

Event(kind, req, resp) == [kind |-> kind, req |-> req, resp |-> resp]

\* mocktty seeds its store before it serves (runEndpoint, runSerialEndpoint)
SeedHolding == PutReg(PutReg(PutReg(EmptyRegs, 100, 1), 101, 2), 102, 43981)
SeedInput == PutReg(EmptyRegs, 200, 51966)
SeedCoils == {0, 2, 3}

InitProto ==
    /\ impl \in {"tcp", "mocktty", "simrtu"}
    /\ Coils = IF impl = "mocktty" THEN SeedCoils ELSE {}
    /\ DiscreteInputs = {}
    /\ HoldingRegisters = IF impl = "mocktty" THEN SeedHolding ELSE EmptyRegs
    /\ InputRegisters = IF impl = "mocktty" THEN SeedInput ELSE EmptyRegs
    /\ handler = "running"
    /\ last = Event("none", <<>>, <<>>)
    /\ nops = 0
    /\ CsvParked
    /\ ctxDone = FALSE
    /\ FleetParked
    /\ AcqParked

\* Server.handleConnection: one request read from the connection and answered
TcpRequest ==
    /\ impl = "tcp"
    /\ handler = "running"
    /\ nops < MaxOps
    /\ \E q \in TcpRequests :
          last' = Event("request", q[1] \o q[2], handleConnection(q[1], q[2]))
    /\ nops' = nops + 1
    /\ UNCHANGED <<impl, tables, handler, outsideProto>>

AfterFrame(frame, r) ==
    /\ Coils' = r.coils
    /\ HoldingRegisters' = r.holding
    /\ handler' = CASE r.status = "continue" -> "running"
                    [] r.status = "return" -> "returned"
                    [] r.status = "panic" -> "panicked"
    /\ last' = Event("request", frame, r.out)
    /\ nops' = nops + 1
    /\ UNCHANGED <<impl, DiscreteInputs, InputRegisters, outsideProto>>

\* mocktty handleStream: one frame read from the stream
RtuRequest ==
    /\ impl = "mocktty"
    /\ handler = "running"
    /\ nops < MaxOps
    /\ \E frame \in RtuFrames : AfterFrame(frame, handleStream(frame, SlaveID))

\* cmd/server rtuStream: one frame read from the serial stream
SimRtuRequest ==
    /\ impl = "simrtu"
    /\ handler = "running"
    /\ nops < MaxOps
    /\ \E frame \in RtuFrames : AfterFrame(frame, rtuStream(frame))

\* io.ReadFull fails (the peer closed, the port was closed): the handler returns
ClientClose ==
    /\ handler = "running"
    /\ nops < MaxOps
    /\ handler' = "returned"
    /\ last' = Event("close", <<>>, <<>>)
    /\ nops' = nops + 1
    /\ UNCHANGED <<impl, tables, outsideProto>>

SetGuard == nops < MaxOps /\ handler # "panicked"

SetDone ==
    /\ last' = Event("set", <<>>, <<>>)
    /\ nops' = nops + 1
    /\ UNCHANGED <<impl, handler, outsideProto>>

\* Server.SetHoldingRegister / store.setHolding / rtuStore.SetHoldingRegister
SetHoldingRegister ==
    /\ SetGuard
    /\ \E address \in SetAddresses, value \in SetWords :
          HoldingRegisters' = IF address >= TableSize THEN HoldingRegisters
                              ELSE PutReg(HoldingRegisters, address, value)
    /\ SetDone
    /\ UNCHANGED <<Coils, DiscreteInputs, InputRegisters>>

\* Server.SetInputRegister / store.setInput / rtuStore.SetInputRegister
SetInputRegister ==
    /\ SetGuard
    /\ \E address \in SetAddresses, value \in SetWords :
          InputRegisters' = IF address >= TableSize THEN InputRegisters
                            ELSE PutReg(InputRegisters, address, value)
    /\ SetDone
    /\ UNCHANGED <<Coils, DiscreteInputs, HoldingRegisters>>

\* Server.SetCoil / store.setCoil / rtuStore.SetCoil
SetCoil ==
    /\ SetGuard
    /\ \E address \in SetAddresses, value \in BOOLEAN :
          Coils' = IF address >= TableSize THEN Coils
                   ELSE PutBit(Coils, address, value)
    /\ SetDone
    /\ UNCHANGED <<DiscreteInputs, HoldingRegisters, InputRegisters>>

\* Server.SetDiscreteInput / store.setDiscrete / rtuStore.SetDiscreteInput
SetDiscreteInput ==
    /\ SetGuard
    /\ \E address \in SetAddresses, value \in BOOLEAN :
          DiscreteInputs' = IF address >= TableSize THEN DiscreteInputs
                            ELSE PutBit(DiscreteInputs, address, value)
    /\ SetDone
    /\ UNCHANGED <<Coils, HoldingRegisters, InputRegisters>>

NextProto ==
    \/ TcpRequest
    \/ RtuRequest
    \/ SimRtuRequest
    \/ ClientClose
    \/ SetHoldingRegister
    \/ SetInputRegister
    \/ SetCoil
    \/ SetDiscreteInput

SpecProto == InitProto /\ [][NextProto]_vars

----------------------------------------------------------------------------
(* The CSV driver (internal/servermgr and cmd/server).  A CSV value is a    *)
(* float64; the model carries it as a whole number of halves, so that      *)
(* math.Round has ties to round.                                           *)

\* math.Round(h/2): to the nearest integer, ties away from zero
RoundHalves(h) ==
    IF (h % 2) = 0 THEN h \div 2
    ELSE IF h > 0 THEN (h + 1) \div 2
    ELSE (h - 1) \div 2

\* floatToUint16 without the range check: the conversion wraps
floatToUint16Wrapping(value) == [word |-> RoundHalves(value) % 65536, err |-> FALSE]

floatToUint16(value) ==
    LET rounded == RoundHalves(value)
    IN  IF rounded < 0 \/ rounded > 65535 THEN [word |-> 0, err |-> TRUE]
        ELSE [word |-> rounded, err |-> FALSE]

\* uint16(int16(rounded)): the two's complement of a negative value
floatToInt16(value) ==
    LET rounded == RoundHalves(value)
    IN  IF rounded < -32768 \/ rounded > 32767 THEN [word |-> 0, err |-> TRUE]
        ELSE [word |-> rounded % 65536, err |-> FALSE]

\* the position of the highest bit of n > 0
HighBit(n) == CHOOSE k \in 0..23 : 2^k <= n /\ n < 2^(k + 1)

\* math.Float32bits(float32(h/2)), as the two words hi = bits >> 16 and
\* lo = bits & 0xFFFF, for |h| < 2^24, which float32 holds exactly: the sign,
\* the exponent of h/2 with the bias 127, the 23 bits after the leading one
Float32bits(h) ==
    IF h = 0 THEN [hi |-> 0, lo |-> 0]
    ELSE LET a == IF h < 0 THEN -h ELSE h
             k == HighBit(a)
             mantissa == (a - 2^k) * 2^(23 - k)
         IN [hi |-> (IF h < 0 THEN 32768 ELSE 0) + ((k + 126) * 128) + (mantissa \div 65536),
             lo |-> mantissa % 65536]

\* the four tables as one value
Tabs == [coils |-> Coils, discrete |-> DiscreteInputs,
         holding |-> HoldingRegisters, input |-> InputRegisters]

setRegisterWord(t, regType, address, word) ==
    CASE regType = "holding" -> [t EXCEPT !.holding = PutReg(@, address, word)]
      [] regType = "input" -> [t EXCEPT !.input = PutReg(@, address, word)]
      [] OTHER -> t

\* setRegisterFloat32 that does not look at the address: address+1 wraps to 0
setRegisterFloat32Wrapping(t, regType, address, scaled) ==
    LET bits == Float32bits(scaled) IN
    setRegisterWord(setRegisterWord(t, regType, address, bits.hi),
                    regType, (address + 1) % 65536, bits.lo)

\* hi at address, lo at address+1; address 65535 is an error before any write
setRegisterFloat32(t, regType, address, scaled) ==
    IF address = 65535 THEN t
    ELSE LET bits == Float32bits(scaled) IN
         setRegisterWord(setRegisterWord(t, regType, address, bits.hi),
                         regType, address + 1, bits.lo)

\* a conversion error leaves the register as it is
writeNumericRegister(t, regType, address, dataType, scaled) ==
    CASE dataType = "uint16" ->
           LET c == floatToUint16(scaled)
           IN  IF c.err THEN t ELSE setRegisterWord(t, regType, address, c.word)
      [] dataType = "int16" ->
           LET c == floatToInt16(scaled)
           IN  IF c.err THEN t ELSE setRegisterWord(t, regType, address, c.word)
      [] dataType = "float32" -> setRegisterFloat32(t, regType, address, scaled)
      [] OTHER -> t

\* scaled := raw*scale + offset, with scale 0 read as 1 (in halves)
Scaled(p, raw) == raw * (IF p.scale = 0 THEN 1 ELSE p.scale) + 2 * p.offset

\* applyRowToServer / applyRowLocked for the one configured point
applyRowToServer(t, p, rows, index) ==
    IF Len(rows) = 0 THEN t
    ELSE LET scaled == Scaled(p, At(rows, index)) IN
         CASE p.regType \in {"holding", "input"} ->
                writeNumericRegister(t, p.regType, p.address,
                    (IF p.dataType = "" THEN "uint16" ELSE p.dataType), scaled)
           [] p.regType = "coil" ->
                [t EXCEPT !.coils = PutBit(@, p.address, scaled > 0)]
           [] p.regType = "discrete" ->
                [t EXCEPT !.discrete = PutBit(@, p.address, scaled > 0)]
           [] OTHER -> t

\* NextIndex that stays on the last row instead of going back to row 0
NextIndexStuck(idx, n) == IF idx + 1 >= n THEN idx ELSE idx + 1

\* idx = (idx + 1) % len(rows)
NextIndex(idx, n) == (idx + 1) % n

\* what a client reading the point would see in tables t
ViewPoint(t, p) ==
    CASE p.regType = "holding" -> GetReg(t.holding, p.address)
      [] p.regType = "input" -> GetReg(t.input, p.address)
      [] p.regType = "coil" -> IF GetBit(t.coils, p.address) THEN 1 ELSE 0
      [] p.regType = "discrete" -> IF GetBit(t.discrete, p.address) THEN 1 ELSE 0

\* the column's values: 10, 20, 30 and -1.5
RowValues == {20, 40, 60, -3}

RowLists == UNION {[1..n -> RowValues] : n \in 0..MaxRows}

Points ==
    {[regType |-> "holding", dataType |-> "", scale |-> 0, offset |-> 0,
      address |-> 100],
     [regType |-> "input", dataType |-> "int16", scale |-> 2, offset |-> 1,
      address |-> 65535],
     [regType |-> "coil", dataType |-> "", scale |-> 1, offset |-> 0,
      address |-> 7],
     [regType |-> "discrete", dataType |-> "", scale |-> 1, offset |-> 2,
      address |-> 7],
     [regType |-> "input", dataType |-> "uint16", scale |-> 4000, offset |-> 0,
      address |-> 100],
     [regType |-> "input", dataType |-> "int16", scale |-> 2000, offset |-> 0,
      address |-> 100],
     [regType |-> "input", dataType |-> "float32", scale |-> 100, offset |-> 1,
      address |-> 100],
     [regType |-> "input", dataType |-> "float32", scale |-> 1, offset |-> 0,
      address |-> 65535]}

----------------------------------------------------------------------------
(* SpecCsv: one slave's CSV driver *)

ProtoParked ==
    /\ impl = "tcp"
    /\ handler = "running"
    /\ last = Event("none", <<>>, <<>>)
    /\ nops = 0

InitCsv ==
    /\ driver \in {"manager", "simulator"}
    /\ point \in Points
    /\ dataRows \in RowLists
    /\ rowIndex = 0
    /\ ticks = 0
    /\ applied = <<>>
    /\ shown = <<>>
    /\ csvState = "new"
    /\ snap = NoSnapshot
    /\ ctxDone = FALSE
    /\ Coils = {}
    /\ DiscreteInputs = {}
    /\ HoldingRegisters = EmptyRegs
    /\ InputRegisters = EmptyRegs
    /\ ProtoParked
    /\ FleetParked
    /\ AcqParked

\* row index written into the server; nothing happens with no rows
ApplyRow(index) ==
    LET t == applyRowToServer(Tabs, point, dataRows, index) IN
    /\ Coils' = t.coils
    /\ DiscreteInputs' = t.discrete
    /\ HoldingRegisters' = t.holding
    /\ InputRegisters' = t.input
    /\ applied' = IF Len(dataRows) = 0 THEN applied ELSE Append(applied, index)
    /\ shown' = IF Len(dataRows) = 0 THEN shown ELSE Append(shown, ViewPoint(t, point))

\* Manager.Run after the CSV is loaded: no rows, no driver; else row 0 is
\* applied and the driver goroutine starts
ManagerStart ==
    /\ driver = "manager"
    /\ csvState = "new"
    /\ IF Len(dataRows) = 0
       THEN csvState' = "none" /\ UNCHANGED <<tables, applied, shown>>
       ELSE csvState' = "running" /\ ApplyRow(0)
    /\ UNCHANGED <<driver, point, dataRows, rowIndex, ticks, snap, ctxDone, protoOnly, fleetVars, acqVars>>

\* the driver goroutine takes a tick of its ticker
ManagerTick ==
    /\ driver = "manager"
    /\ csvState = "running"
    /\ ticks < MaxTicks
    /\ rowIndex' = NextIndex(rowIndex, Len(dataRows))
    /\ ApplyRow(rowIndex')
    /\ ticks' = ticks + 1
    /\ UNCHANGED <<driver, point, dataRows, csvState, snap, ctxDone, protoOnly, fleetVars, acqVars>>

\* simulator.Start: s.applyRow(0), then the select loop
SimulatorStart ==
    /\ driver = "simulator"
    /\ csvState = "new"
    /\ csvState' = "running"
    /\ ApplyRow(0)
    /\ UNCHANGED <<driver, point, dataRows, rowIndex, ticks, snap, ctxDone, protoOnly, fleetVars, acqVars>>

\* simulator.nextRow on a tick
nextRow ==
    /\ driver = "simulator"
    /\ csvState = "running"
    /\ ticks < MaxTicks
    /\ IF Len(dataRows) = 0
       THEN UNCHANGED <<rowIndex, tables, applied, shown>>
       ELSE rowIndex' = NextIndex(rowIndex, Len(dataRows)) /\ ApplyRow(rowIndex')
    /\ ticks' = ticks + 1
    /\ UNCHANGED <<driver, point, dataRows, csvState, snap, ctxDone, protoOnly, fleetVars, acqVars>>

\* the context is cancelled
CsvCancel ==
    /\ ~ctxDone
    /\ ctxDone' = TRUE
    /\ UNCHANGED <<tables, csvVars, protoOnly, fleetVars, acqVars>>

\* the select takes <-ctx.Done(): the driver returns
DriverReturn ==
    /\ ctxDone
    /\ csvState = "running"
    /\ csvState' = "stopped"
    /\ UNCHANGED <<tables, driver, point, dataRows, rowIndex, ticks, applied, shown,
                   snap, ctxDone, protoOnly, fleetVars, acqVars>>

\* modbusGetU16 that reads the holding registers whatever the kind
modbusGetU16Holding(t, kind, addr) == [v |-> GetReg(t.holding, addr), err |-> FALSE]

\* modbusGetU16 -> modbus.GetHoldingRegister / GetInputRegister
modbusGetU16(t, kind, addr) ==
    CASE kind = "holding" -> [v |-> GetReg(t.holding, addr), err |-> addr >= TableSize]
      [] kind = "input" -> [v |-> GetReg(t.input, addr), err |-> addr >= TableSize]
      [] OTHER -> [v |-> 0, err |-> TRUE]

\* modbusGetBool -> modbus.GetCoil / GetDiscreteInput
modbusGetBool(t, kind, addr) ==
    CASE kind = "coil" -> [v |-> GetBit(t.coils, addr), err |-> addr >= TableSize]
      [] kind = "discrete" -> [v |-> GetBit(t.discrete, addr), err |-> addr >= TableSize]
      [] OTHER -> [v |-> FALSE, err |-> TRUE]

\* the PointSnapshot of point p: ValueUint16 and ValueBool are pointers, nil
\* (<<>>) unless the switch on the register type sets them
PointSnapshot(t, p) ==
    LET u == modbusGetU16(t, p.regType, p.address)
        b == modbusGetBool(t, p.regType, p.address)
    IN [RegisterType |-> p.regType, Address |-> p.address,
        ValueUint16 |-> IF p.regType \in {"holding", "input"} /\ ~u.err
                        THEN <<u.v>> ELSE <<>>,
        ValueBool |-> IF p.regType \in {"coil", "discrete"} /\ ~b.err
                      THEN <<b.v>> ELSE <<>>]

\* Manager.Snapshot, for the one point of the one running server
Snapshot ==
    /\ driver = "manager"
    /\ snap = NoSnapshot
    /\ snap' = PointSnapshot(Tabs, point)
    /\ UNCHANGED <<tables, driver, point, dataRows, rowIndex, ticks, applied, shown,
                   csvState, ctxDone, protoOnly, fleetVars, acqVars>>

\* the caller drops the snapshot
SnapshotDropped ==
    /\ snap # NoSnapshot
    /\ snap' = NoSnapshot
    /\ UNCHANGED <<tables, driver, point, dataRows, rowIndex, ticks, applied, shown,
                   csvState, ctxDone, protoOnly, fleetVars, acqVars>>

NextCsv ==
    \/ Snapshot
    \/ SnapshotDropped
    \/ ManagerStart
    \/ ManagerTick
    \/ SimulatorStart
    \/ nextRow
    \/ CsvCancel
    \/ DriverReturn

SpecCsv == InitCsv /\ [][NextCsv]_vars

----------------------------------------------------------------------------
(* SpecFleet: Manager.Run and the servers it starts *)

\* retry := s.RetryCount; if retry < 0 { retry = 0 }
RetryLimitUnclamped(retryCount) == retryCount

RetryLimit(retryCount) == IF retryCount < 0 THEN 0 ELSE retryCount

RetryCounts == {-1, 0, 2}

\* enabled with a supported protocol, or skipped by the loop of Run
ServerSettings ==
    {[enabled |-> FALSE, retryCount |-> 0]}
        \cup {[enabled |-> TRUE, retryCount |-> r] : r \in RetryCounts}

ServerIDs == 1..NumServers

\* pc is where the slave's goroutine stands: "off" (none), "acquire" (at the
\* select on the semaphore), "listen" (in the retry loop, before Listen),
\* "sleep" (in time.Sleep after a failed Listen), "failed" (returned after the
\* last failed Listen), "running" (registered, at <-ctx.Done()), "closing" (in
\* server.Close, at wg.Wait), "done" (returned after Close), "cancelled"
\* (returned from the select).  attempt is the loop variable (0 outside the
\* loop's scope, kept where the goroutine returned inside it), listening says
\* the listener is open, accept and drv are the accept loop and the CSV driver
\* goroutine ("none", "running", "exited"), open counts the connection
\* workers, each in io.ReadFull on a connection its client keeps open.
NewSlave(settings) ==
    [enabled |-> settings.enabled, retryCount |-> settings.retryCount,
     pc |-> "off", attempt |-> 0, listening |-> FALSE,
     accept |-> "none", open |-> 0, drv |-> "none"]

\* slots are held from the select until the goroutine returns
HoldsSlot(pc) == pc \in {"listen", "sleep", "running", "closing"}

GoroutineOver(pc) == pc \in {"off", "failed", "done", "cancelled"}

CsvAndProtoParked ==
    /\ CsvParked
    /\ ProtoParked
    /\ Coils = {}
    /\ DiscreteInputs = {}
    /\ HoldingRegisters = EmptyRegs
    /\ InputRegisters = EmptyRegs

\* the servers are interchangeable (Run starts one goroutine for each and
\* none looks at another), so their settings are listed in one order only:
\* skipped servers first, then by retry count
SettingsRank(sl) == IF sl.enabled THEN sl.retryCount + 2 ELSE 0

InitFleet ==
    /\ slave \in [ServerIDs -> {NewSlave(c) : c \in ServerSettings}]
    /\ \A i \in ServerIDs, j \in ServerIDs :
          i < j => SettingsRank(slave[i]) <= SettingsRank(slave[j])
    /\ sem = 0
    /\ servers = {}
    /\ runPc = "new"
    /\ elapsed = 0
    /\ ctxDone = FALSE
    /\ CsvAndProtoParked
    /\ AcqParked

outsideFleet == <<tables, protoOnly, csvVars, acqVars>>

\* Run's loop: one goroutine per enabled server; Run then waits for ctx.Done()
Run ==
    /\ runPc = "new"
    /\ runPc' = "waiting"
    /\ slave' = [i \in DOMAIN slave |->
                   IF slave[i].enabled THEN [slave[i] EXCEPT !.pc = "acquire"]
                   ELSE slave[i]]
    /\ UNCHANGED <<sem, servers, elapsed, ctxDone, outsideFleet>>

\* select: case sem <- struct{}{}
AcquireSlot(i) ==
    /\ slave[i].pc = "acquire"
    /\ sem < StartSemCap
    /\ sem' = sem + 1
    /\ slave' = [slave EXCEPT ![i].pc = "listen", ![i].attempt = 0]
    /\ UNCHANGED <<servers, runPc, elapsed, ctxDone, outsideFleet>>

\* select: case <-ctx.Done(): return
GiveUp(i) ==
    /\ slave[i].pc = "acquire"
    /\ ctxDone
    /\ slave' = [slave EXCEPT ![i].pc = "cancelled"]
    /\ UNCHANGED <<sem, servers, runPc, elapsed, ctxDone, outsideFleet>>

\* the goroutine from m.servers[s.ServerID] = server to <-ctx.Done(): the
\* server is registered, its points are zeroed, the CSV driver starts when the
\* CSV file gives rows
Registered(i, bound, rows) ==
    /\ servers' = servers \cup {i}
    /\ slave' = [slave EXCEPT ![i].pc = "running",
                              ![i].attempt = 0,
                              ![i].listening = (bound = "bound"),
                              ![i].accept = IF bound = "bound" THEN "running" ELSE "none",
                              ![i].drv = IF rows THEN "running" ELSE "none"]
    /\ UNCHANGED sem

\* server.Listen(addr) succeeds: the accept loop starts, the loop is left
ListenOk(i) ==
    /\ slave[i].pc = "listen"
    /\ \E rows \in BOOLEAN :
          IF slave[i].attempt <= RetryLimit(slave[i].retryCount)
          THEN Registered(i, "bound", rows)
          ELSE Registered(i, "no call", rows)
    /\ UNCHANGED <<runPc, elapsed, ctxDone, outsideFleet>>

\* server.Listen(addr) fails: the last attempt returns (and gives the slot
\* back), any other sleeps a second
ListenFail(i) ==
    /\ slave[i].pc = "listen"
    /\ slave[i].attempt <= RetryLimit(slave[i].retryCount)
    /\ IF slave[i].attempt = RetryLimit(slave[i].retryCount)
       THEN /\ slave' = [slave EXCEPT ![i].pc = "failed"]
            /\ sem' = sem - 1
       ELSE /\ slave' = [slave EXCEPT ![i].pc = "sleep"]
            /\ sem' = sem
    /\ UNCHANGED <<servers, runPc, elapsed, ctxDone, outsideFleet>>

\* time.Sleep(time.Second) returns; attempt++
Wake(i) ==
    /\ slave[i].pc = "sleep"
    /\ slave' = [slave EXCEPT ![i].pc = "listen", ![i].attempt = @ + 1]
    /\ UNCHANGED <<sem, servers, runPc, elapsed, ctxDone, outsideFleet>>

\* the listener accepts a connection; a worker starts and waits for a request
ClientConnect(i) ==
    /\ slave[i].listening
    /\ slave[i].accept = "running"
    /\ slave[i].open < MaxConns
    /\ slave' = [slave EXCEPT ![i].open = @ + 1]
    /\ UNCHANGED <<sem, servers, runPc, elapsed, ctxDone, outsideFleet>>

\* the client closes its connection: io.ReadFull fails, the worker returns
ClientHangUp(i) ==
    /\ slave[i].open > 0
    /\ slave' = [slave EXCEPT ![i].open = @ - 1]
    /\ UNCHANGED <<sem, servers, runPc, elapsed, ctxDone, outsideFleet>>

\* the context is cancelled
FleetCancel ==
    /\ ~ctxDone
    /\ ctxDone' = TRUE
    /\ UNCHANGED <<fleetVars, outsideFleet>>

\* <-ctx.Done() in the slave's goroutine, then server.Close(): quit is closed,
\* the listener is closed, and Close waits for the server's goroutines
Close(i) ==
    /\ slave[i].pc = "running"
    /\ ctxDone
    /\ slave' = [slave EXCEPT ![i].pc = "closing", ![i].listening = FALSE]
    /\ UNCHANGED <<sem, servers, runPc, elapsed, ctxDone, outsideFleet>>

\* Accept fails on the closed listener and quit is closed: acceptLoop returns
AcceptExit(i) ==
    /\ slave[i].accept = "running"
    /\ slave[i].pc = "closing"
    /\ slave' = [slave EXCEPT ![i].accept = "exited"]
    /\ UNCHANGED <<sem, servers, runPc, elapsed, ctxDone, outsideFleet>>

\* the driver goroutine's select takes <-ctx.Done()
DriverExit(i) ==
    /\ slave[i].drv = "running"
    /\ ctxDone
    /\ slave' = [slave EXCEPT ![i].drv = "exited"]
    /\ UNCHANGED <<sem, servers, runPc, elapsed, ctxDone, outsideFleet>>

\* s.wg.Wait() in Close returns once the accept loop and every worker have
\* returned; the server is deleted from m.servers and the goroutine returns
CloseReturn(i) ==
    /\ slave[i].pc = "closing"
    /\ slave[i].accept # "running"
    /\ slave[i].open = 0
    /\ slave' = [slave EXCEPT ![i].pc = "done"]
    /\ servers' = servers \ {i}
    /\ sem' = sem - 1
    /\ UNCHANGED <<runPc, elapsed, ctxDone, outsideFleet>>

\* <-ctx.Done(); wg.Wait(); return nil
RunReturn ==
    /\ runPc = "waiting"
    /\ ctxDone
    /\ \A i \in ServerIDs : GoroutineOver(slave[i].pc)
    /\ runPc' = "returned"
    /\ UNCHANGED <<slave, sem, servers, elapsed, ctxDone, outsideFleet>>

\* a step of the manager or of a goroutine it started
ManagerStep ==
    \/ Run
    \/ RunReturn
    \/ \E i \in ServerIDs :
          \/ AcquireSlot(i) \/ GiveUp(i) \/ ListenOk(i) \/ ListenFail(i) \/ Wake(i)
          \/ Close(i) \/ AcceptExit(i) \/ DriverExit(i) \/ CloseReturn(i)

\* a second passes after the cancellation, while no step of the manager is
\* possible and Run has not returned
Second ==
    /\ ctxDone
    /\ runPc # "returned"
    /\ elapsed <= GraceSeconds
    /\ ~ENABLED ManagerStep
    /\ elapsed' = elapsed + 1
    /\ UNCHANGED <<slave, sem, servers, runPc, ctxDone, outsideFleet>>

NextFleet ==
    \/ Run
    \/ \E i \in ServerIDs : AcquireSlot(i)
    \/ \E i \in ServerIDs : GiveUp(i)
    \/ \E i \in ServerIDs : ListenOk(i)
    \/ \E i \in ServerIDs : ListenFail(i)
    \/ \E i \in ServerIDs : Wake(i)
    \/ \E i \in ServerIDs : ClientConnect(i)
    \/ \E i \in ServerIDs : ClientHangUp(i)
    \/ FleetCancel
    \/ \E i \in ServerIDs : Close(i)
    \/ \E i \in ServerIDs : AcceptExit(i)
    \/ \E i \in ServerIDs : DriverExit(i)
    \/ \E i \in ServerIDs : CloseReturn(i)
    \/ RunReturn
    \/ Second

SpecFleet == InitFleet /\ [][NextFleet]_vars

----------------------------------------------------------------------------
(* Reading an event: the request handled last and what was written back *)

KnownFunctions == {1, 2, 3, 4, 5, 6, 15, 16}

\* the CRC in the last two bytes of an RTU frame is the CRC of the rest
CrcVerifies(frame) ==
    /\ Len(frame) >= 4
    /\ crc16Modbus(Slice(frame, 0, Len(frame) - 2))
         = LittleEndianUint16(frame, Len(frame) - 2)

\* e is a request that carries a PDU to this slave: a TCP request whose length
\* field announces the PDU that follows, an RTU frame with the slave's address
\* and a CRC that verifies
Served(e) ==
    /\ e.kind = "request"
    /\ IF impl = "tcp"
       THEN Len(e.req) > 7 /\ BigEndianUint16(e.req, 4) = Len(e.req) - 6
       ELSE Len(e.req) >= 4 /\ e.req[1] = SlaveID /\ CrcVerifies(e.req)

\* the request PDU and the response PDU of an event (<<>>: nothing written)
RequestPDU(e) ==
    IF impl = "tcp" THEN Slice(e.req, 7, Len(e.req))
    ELSE Slice(e.req, 1, Len(e.req) - 2)

ResponsePDU(e) ==
    IF Len(e.resp) = 0 THEN <<>>
    ELSE IF impl = "tcp" THEN Slice(e.resp, 7, Len(e.resp))
    ELSE Slice(e.resp, 1, Len(e.resp) - 2)

PduStart(pdu) == pdu[2] * 256 + pdu[3]
PduQty(pdu) == pdu[4] * 256 + pdu[5]

\* function 0x01-0x04, quantity within bounds, start+qty <= 65536
ValidRead(pdu) ==
    /\ Len(pdu) = 5
    /\ pdu[1] \in {1, 2, 3, 4}
    /\ PduQty(pdu) >= 1
    /\ PduQty(pdu) <= (IF pdu[1] \in {1, 2} THEN 2000 ELSE 125)
    /\ PduStart(pdu) + PduQty(pdu) <= 65536

\* resp is <<fn, n>> and n = ceil(qty/8) bytes in which bit i mod 8 of byte i/8
\* is the bit at start+i of the table, and the bits from qty on are 0
BitsWindow(table, pdu, resp) ==
    /\ Len(resp) >= 2
    /\ resp[1] = pdu[1]
    /\ 8 * resp[2] >= PduQty(pdu)
    /\ 8 * (resp[2] - 1) < PduQty(pdu)
    /\ Len(resp) = 2 + resp[2]
    /\ \A i \in 0..(8 * resp[2] - 1) :
          ((resp[3 + (i \div 8)] \div Pow2(i % 8)) % 2)
            = (IF i < PduQty(pdu) /\ (PduStart(pdu) + i) \in table THEN 1 ELSE 0)

\* resp is <<fn, 2*qty>> and qty words, high byte first, in address order
WordsWindow(table, pdu, resp) ==
    /\ Len(resp) >= 2
    /\ resp[1] = pdu[1]
    /\ resp[2] = 2 * PduQty(pdu)
    /\ Len(resp) = 2 + 2 * PduQty(pdu)
    /\ \A i \in 0..(PduQty(pdu) - 1) :
          resp[3 + 2 * i] * 256 + resp[4 + 2 * i]
            = (IF (PduStart(pdu) + i) \in DOMAIN table
               THEN table[PduStart(pdu) + i] ELSE 0)

ReadWindow(pdu, resp) ==
    CASE pdu[1] = 1 -> BitsWindow(Coils, pdu, resp)
      [] pdu[1] = 2 -> BitsWindow(DiscreteInputs, pdu, resp)
      [] pdu[1] = 3 -> WordsWindow(HoldingRegisters, pdu, resp)
      [] pdu[1] = 4 -> WordsWindow(InputRegisters, pdu, resp)

----------------------------------------------------------------------------
(* C1 *)

\* C1: every valid read request (function 0x01-0x04, quantity within bounds,
\* start+qty <= 65536) is answered with exactly the contents of addresses
\* start .. start+qty-1 of the addressed table: registers as big-endian words in
\* address order, bits packed LSB-first, byteCount = ceil(qty/8) for bits and
\* 2*qty for registers, unused high bits zero.  Checked for the TCP server and
\* for both RTU stream handlers.
ReadResponseCarriesWindow ==
    (Served(last) /\ ValidRead(RequestPDU(last)))
        => ReadWindow(RequestPDU(last), ResponsePDU(last))

\* a valid read answered by the TCP server with data that is not all zero, and
\* one answered by an RTU handler
ReadOfSetValuesSeen ==
    /\ impl = "tcp"
    /\ Served(last)
    /\ ValidRead(RequestPDU(last))
    /\ \E k \in 3..Len(ResponsePDU(last)) : ResponsePDU(last)[k] # 0

----------------------------------------------------------------------------
(* C2 *)

\* a write-single or write-multiple request the protocol allows: coil value
\* 0xFF00 or 0x0000, quantity within bounds, byteCount matching the quantity,
\* start+qty <= 65536
ValidWrite(pdu) ==
    /\ Len(pdu) >= 5
    /\ CASE pdu[1] = 5 -> Len(pdu) = 5 /\ PduQty(pdu) \in {65280, 0}
         [] pdu[1] = 6 -> Len(pdu) = 5
         [] pdu[1] = 15 -> /\ Len(pdu) >= 6
                           /\ PduQty(pdu) >= 1
                           /\ PduQty(pdu) <= 1968
                           /\ PduStart(pdu) + PduQty(pdu) <= 65536
                           /\ pdu[6] = (PduQty(pdu) + 7) \div 8
                           /\ Len(pdu) = 6 + pdu[6]
         [] pdu[1] = 16 -> /\ Len(pdu) >= 6
                           /\ PduQty(pdu) >= 1
                           /\ PduQty(pdu) <= 123
                           /\ PduStart(pdu) + PduQty(pdu) <= 65536
                           /\ pdu[6] = 2 * PduQty(pdu)
                           /\ Len(pdu) = 6 + pdu[6]
         [] OTHER -> FALSE

\* the read request for the range a write request wrote
ReadBack(pdu) ==
    CASE pdu[1] = 5 -> <<1, pdu[2], pdu[3], 0, 1>>
      [] pdu[1] = 6 -> <<3, pdu[2], pdu[3], 0, 1>>
      [] pdu[1] = 15 -> <<1, pdu[2], pdu[3], pdu[4], pdu[5]>>
      [] pdu[1] = 16 -> <<3, pdu[2], pdu[3], pdu[4], pdu[5]>>

\* the response to ReadBack that carries the written values
WrittenValues(pdu) ==
    CASE pdu[1] = 5 -> <<1, 1, (IF PduQty(pdu) = 65280 THEN 1 ELSE 0)>>
      [] pdu[1] = 6 -> <<3, 2, pdu[4], pdu[5]>>
      [] pdu[1] = 15 ->
           <<1, pdu[6]>> \o
             [j \in 1..pdu[6] |->
                 IF 8 * j <= PduQty(pdu) THEN pdu[6 + j]
                 ELSE pdu[6 + j] % Pow2(PduQty(pdu) - 8 * (j - 1))]
      [] pdu[1] = 16 -> <<3, pdu[6]>> \o [j \in 1..pdu[6] |-> pdu[6 + j]]

\* the response PDU the handler of this stream gives to a read sent next
NextRead(pdu) ==
    CASE impl = "tcp" ->
           LET out == handleConnection(MbapHeader(<<1, 0, SlaveID>>, Len(pdu) + 1), pdu)
           IN  Slice(out, 7, Len(out))
      [] impl = "mocktty" ->
           LET out == handleStream(RtuFrame(SlaveID, pdu), SlaveID).out
           IN  Slice(out, 1, Len(out) - 2)
      [] impl = "simrtu" ->
           LET out == rtuStream(RtuFrame(SlaveID, pdu)).out
           IN  Slice(out, 1, Len(out) - 2)

----------------------------------------------------------------------------
(* C3 *)

\* e is a request to this slave whose function code is none of the eight
UnknownFunction(e) ==
    /\ e.kind = "request"
    /\ IF impl = "tcp"
       THEN Len(e.req) > 7 /\ e.req[8] \notin KnownFunctions
       ELSE Len(e.req) >= 2 /\ e.req[1] = SlaveID /\ e.req[2] \notin KnownFunctions

FunctionOf(e) == IF impl = "tcp" THEN e.req[8] ELSE e.req[2]

\* C3: a request whose function code is not one of 0x01-0x06, 0x0F, 0x10 is
\* answered with the exception PDU (fn|0x80, 0x01) and changes no register, on
\* the TCP adapter and on the RTU stream adapters.
UnknownFunctionIsAnswered ==
    [][UnknownFunction(last')
          => /\ ResponsePDU(last') = <<BitOr(FunctionOf(last'), 128), 1>>
             /\ UNCHANGED tables]_vars

----------------------------------------------------------------------------
(* C4 *)

\* a read or write-multiple request, which carries a quantity
HasQuantity(pdu) ==
    /\ Len(pdu) >= 5
    /\ \/ pdu[1] \in {1, 2, 3, 4} /\ Len(pdu) = 5
       \/ pdu[1] \in {15, 16} /\ Len(pdu) >= 6 /\ Len(pdu) = 6 + pdu[6]

\* read bits 1..2000, read registers 1..125, write multiple coils 1..1968,
\* write multiple registers 1..123 with byteCount = 2*qty
QuantityInBound(pdu) ==
    CASE pdu[1] \in {1, 2} -> PduQty(pdu) >= 1 /\ PduQty(pdu) <= 2000
      [] pdu[1] \in {3, 4} -> PduQty(pdu) >= 1 /\ PduQty(pdu) <= 125
      [] pdu[1] = 15 -> PduQty(pdu) >= 1 /\ PduQty(pdu) <= 1968
      [] pdu[1] = 16 -> PduQty(pdu) >= 1 /\ PduQty(pdu) <= 123
                          /\ pdu[6] = 2 * PduQty(pdu)

\* C4: a request whose quantity is outside its bound is answered with
\* exception 0x03 (IllegalDataValue); a request with a valid quantity whose
\* start+qty exceeds 65536 is answered with 0x02 (IllegalDataAddress); in both
\* cases no register changes; on both transports.
QuantityAndRangeErrorsAnswered ==
    [][(Served(last') /\ HasQuantity(RequestPDU(last')))
          => LET pdu == RequestPDU(last')
                 resp == ResponsePDU(last')
             IN  /\ ~QuantityInBound(pdu)
                      => resp = <<BitOr(pdu[1], 128), 3>> /\ UNCHANGED tables
                 /\ (QuantityInBound(pdu) /\ PduStart(pdu) + PduQty(pdu) > 65536)
                      => resp = <<BitOr(pdu[1], 128), 2>> /\ UNCHANGED tables]_vars

----------------------------------------------------------------------------
(* C5 *)

\* C5: every Modbus TCP response header carries the transaction ID of the
\* request it answers, protocol ID 0 and a length field equal to the response
\* PDU length plus one, whatever protocol ID, unit ID and PDU the request
\* carried.
TcpHeaderEchoesTransaction ==
    (impl = "tcp" /\ last.kind = "request" /\ Len(last.resp) > 0)
        => /\ Len(last.resp) >= 7
           /\ last.resp[1] = last.req[1]
           /\ last.resp[2] = last.req[2]
           /\ last.resp[3] = 0
           /\ last.resp[4] = 0
           /\ last.resp[5] * 256 + last.resp[6] = (Len(last.resp) - 7) + 1

\* a response to a request that carried a protocol ID other than 0 and a
\* transaction ID other than 0
TcpAnswerToOddHeaderSeen ==
    /\ impl = "tcp"
    /\ last.kind = "request"
    /\ Len(last.resp) > 7
    /\ last.req[1] * 256 + last.req[2] = 65535
    /\ last.req[3] * 256 + last.req[4] = 5

----------------------------------------------------------------------------
(* C6 *)

\* an RTU frame of a known function whose address is not the slave's, or whose
\* CRC does not verify
NotForThisSlave(e) ==
    /\ impl # "tcp"
    /\ e.kind = "request"
    /\ Len(e.req) >= 4
    /\ (e.req[1] # SlaveID \/ ~CrcVerifies(e.req))

\* C6: an RTU frame whose address byte differs from the slave's configured ID,
\* or whose CRC-16 does not verify, produces no response and no change to the
\* register space, for every RTU stream handler.
ForeignOrCorruptFrameIsDropped ==
    [][NotForThisSlave(last') => (last'.resp = <<>> /\ UNCHANGED tables)]_vars

----------------------------------------------------------------------------
(* C7 *)

\* a request that is a protocol error: unknown function code, malformed PDU
\* (a TCP PDU cut short, a byteCount that does not cover the quantity), bad CRC
\* or foreign address, quantity or address out of range
ProtocolError(e) ==
    /\ e.kind = "request"
    /\ \/ UnknownFunction(e)
       \/ NotForThisSlave(e)
       \/ impl = "tcp" /\ Len(e.req) > 7 /\ Len(e.req) < 12
       \/ /\ Served(e)
          /\ HasQuantity(RequestPDU(e))
          /\ \/ ~QuantityInBound(RequestPDU(e))
             \/ PduStart(RequestPDU(e)) + PduQty(RequestPDU(e)) > 65536
             \/ RequestPDU(e)[1] = 15
                  /\ 8 * RequestPDU(e)[6] < PduQty(RequestPDU(e))

\* C7: a protocol error on a TCP connection or RTU stream never ends the
\* handler of that connection or stream: it goes on to read the next request.
ProtocolErrorKeepsHandler ==
    [][ProtocolError(last') => handler' = "running"]_vars

----------------------------------------------------------------------------
(* C8 *)

\* C8: a CSV driver with N >= 1 data rows applies row 0 when it starts and row
\* (k mod N) on its k-th tick, for every k until it stops; a holding register
\* driven as uint16 shows each whole value in range, and with rows 10, 20, 30 it
\* shows 10, 20, 30, 10 over the start and three ticks.  Checked for the
\* manager's driver and for the simulator's.
CsvRowsCycle ==
    (Len(dataRows) >= 1 /\ csvState \in {"running", "stopped"})
        => /\ Len(applied) = ticks + 1
           /\ Len(shown) = ticks + 1
           /\ \A k \in 0..ticks : applied[k + 1] = k % Len(dataRows)
           /\ (point.regType = "holding" /\ point.dataType = "")
                => \A k \in 0..ticks :
                      LET v == dataRows[(k % Len(dataRows)) + 1]
                      IN  ((v % 2) = 0 /\ v >= 0) => shown[k + 1] = v \div 2
           /\ (dataRows = <<20, 40, 60>> /\ point.regType = "holding" /\ ticks = 3)
                => shown = <<10, 20, 30, 10>>

\* rows 10, 20, 30 after the start and three ticks of the manager's driver
CsvThreeTicksSeen ==
    /\ driver = "manager"
    /\ dataRows = <<20, 40, 60>>
    /\ point.regType = "holding"
    /\ ticks = 3
    /\ shown = <<10, 20, 30, 10>>
    /\ GetReg(HoldingRegisters, 100) = 10

\* ---------------------------------------------------------------------------
\* The fleet: bind retries and cancellation
\* ---------------------------------------------------------------------------

\* the retries the configuration allows: retryCount, a negative one counted as 0
AllowedRetries(i) == IF slave[i].retryCount < 0 THEN 0 ELSE slave[i].retryCount

SlotsHeld == Cardinality({i \in ServerIDs : HoldsSlot(slave[i].pc)})

\* a slave in the retry loop has not used up its retries; a Failed slave has
\* failed AllowedRetries + 1 binds, is not registered, has no listener and no
\* goroutine of its own and holds no start slot; a Running slave has a bound
\* listener until the fleet is cancelled; a slave waiting to start or to bind
\* can go on whatever the other slaves did
FleetState ==
    /\ sem = SlotsHeld
    /\ \A i \in ServerIDs :
          /\ slave[i].pc = "listen" => slave[i].attempt <= AllowedRetries(i)
          /\ slave[i].pc = "sleep" => slave[i].attempt < AllowedRetries(i)
          /\ slave[i].pc = "failed" =>
                /\ slave[i].attempt = AllowedRetries(i)
                /\ i \notin servers
                /\ ~slave[i].listening
                /\ slave[i].accept = "none"
                /\ slave[i].drv = "none"
          /\ slave[i].pc = "running" => slave[i].listening /\ i \in servers
          /\ slave[i].pc = "acquire" => ENABLED AcquireSlot(i)
          /\ slave[i].pc = "listen" => ENABLED ListenOk(i)

\* a failed bind is followed by a sleep and another bind with the next attempt
\* number, unless it was the last allowed one; a slave starts running only
\* from a bind that succeeded; a Failed slave stays Failed; the step that
\* fails one slave changes no other slave, and a Running slave stops running
\* only after the cancellation
FleetStep ==
    \A i \in ServerIDs :
       /\ slave[i].pc = "listen" /\ slave'[i].pc = "sleep" =>
             slave'[i].attempt = slave[i].attempt
       /\ slave[i].pc = "sleep" /\ slave'[i].pc # "sleep" =>
             slave'[i].pc = "listen" /\ slave'[i].attempt = slave[i].attempt + 1
       /\ slave[i].pc = "listen" /\ slave'[i].pc = "failed" =>
             slave[i].attempt = AllowedRetries(i)
       /\ slave[i].pc # "running" /\ slave'[i].pc = "running" =>
             slave[i].pc = "listen" /\ slave'[i].listening
       /\ slave[i].pc = "failed" => slave'[i].pc = "failed"
       /\ slave[i].pc # "failed" /\ slave'[i].pc = "failed" =>
             \A j \in ServerIDs \ {i} : slave'[j] = slave[j]
       /\ slave[i].pc = "running" /\ slave'[i].pc # "running" => ctxDone

\* C9: a slave whose bind fails is retried until it succeeds or retryCount
\* retries have failed (retryCount + 1 attempts, a negative retryCount counted
\* as 0); it is then Failed and never runs; the failure of one slave neither
\* keeps another enabled slave from reaching Running nor stops a Running one.
BindRetriedThenFailed == []FleetState /\ [][FleetStep]_vars

\* a slave with two retries has failed its third bind while another slave runs
FailedBesideRunningSeen ==
    \E i \in ServerIDs, j \in ServerIDs :
       /\ slave[i].pc = "failed"
       /\ slave[i].retryCount = 2
       /\ slave[i].attempt = 2
       /\ slave[j].pc = "running"
       /\ slave[j].listening

\* C10: after the cancellation every listener, accept loop, connection worker
\* and CSV driver terminates and Manager.Run returns within the grace window
\* of 5 seconds, whatever state the client connections are in: no more than
\* GraceSeconds seconds pass while Run has not returned.
RunReturnsWithinGrace == elapsed <= GraceSeconds

----------------------------------------------------------------------------
(* SpecPoller: Collector.Run of one device *)

\* points of the device, and poll cycles of one run
MaxPoints == 2
MaxCycles == 2

\* time.After(time.Second) between two connect attempts
BackoffSeconds == 1

ConnectRetriesUnclamped(retryCount) == retryCount

\* retry := c.Server.RetryCount; if retry < 0 { retry = 0 }
ConnectRetries(retryCount) == IF retryCount < 0 THEN 0 ELSE retryCount

\* register type and data type of a point; "string" is no data type of
\* decodeRegisterData
PointKinds ==
    {[rt |-> "holding", dt |-> "uint16"],
     [rt |-> "input", dt |-> "float32"],
     [rt |-> "holding", dt |-> "string"]}

PointLists == UNION {[1..n -> PointKinds] : n \in 1..MaxPoints}

\* what the client's read call gives: an error, or that many bytes of data
ReadResults ==
    {[err |-> TRUE, len |-> 0]} \cup {[err |-> FALSE, len |-> n] : n \in {2, 4}}

\* whether decoding len bytes as dt gives a value
decodeRegisterData(dt, len) ==
    CASE dt \in {"uint16", "int16"} -> len >= 2
      [] dt \in {"float32", "uint32", "int32"} -> len >= 4
      [] OTHER -> FALSE

\* "ok", or the kind of error readPoint returns
readPoint(p, r) ==
    CASE p.rt \in {"holding", "input"} ->
            IF r.err THEN "read error"
            ELSE IF decodeRegisterData(p.dt, r.len) THEN "ok" ELSE "decode error"
      [] p.rt \in {"coil", "discrete"} -> IF r.err THEN "read error" ELSE "ok"
      [] OTHER -> "unsupported register type"

\* the body of pollOnce's loop for point p, past the check of ctx: r1 is what
\* the first read gives, connected whether reconnect's Connect succeeds, r2
\* what a second read gives.  reads and reconnects count the calls made, emit
\* says the handler is called, err that pollOnce returns an error.
pollPointNoRetry(p, r1, connected, r2) ==
    LET first == readPoint(p, r1) IN
    IF first = "ok"
    THEN [first |-> first, second |-> "none", reads |-> 1, reconnects |-> 0,
          emit |-> TRUE, err |-> FALSE]
    ELSE [first |-> first, second |-> "none", reads |-> 1, reconnects |-> 1,
          emit |-> connected, err |-> ~connected]

pollPoint(p, r1, connected, r2) ==
    LET first == readPoint(p, r1) IN
    IF first = "ok"
    THEN [first |-> first, second |-> "none", reads |-> 1, reconnects |-> 0,
          emit |-> TRUE, err |-> FALSE]
    ELSE IF connected
         THEN LET second == readPoint(p, r2) IN
              [first |-> first, second |-> second, reads |-> 2, reconnects |-> 1,
               emit |-> (second = "ok"), err |-> (second # "ok")]
         ELSE [first |-> first, second |-> "none", reads |-> 1, reconnects |-> 1,
               emit |-> FALSE, err |-> TRUE]

\* c.Handler(val): the handler receives the value of point idx in cycle cycle
HandlerFirst(received, cycle, idx) == <<(<<cycle, idx>>)>> \o received

Handler(received, cycle, idx) == Append(received, <<cycle, idx>>)

NoPoint == [kind |-> "none"]

\* pc is where Run stands: "connect" (about to call h.Connect in the loop),
\* "backoff" (in the select after a failed Connect), "cycle" (in pollOnce,
\* at point idx of cycle cycle), "idle" (in the select of the loop, after a
\* pollOnce), "stopped" (returned, result says with what).  attempts is the
\* loop variable of the connect loop, slept the seconds of backoff, received
\* what the handler got in the current cycle, before the last value it got in
\* an earlier cycle, done what the last run of the loop body of pollOnce did
\* (connected: reconnect was called and its Connect succeeded),
\* logged whether the last pollOnce returned an error, which Run logs.
NewCollector(retryCount, points) ==
    [retryCount |-> retryCount, points |-> points, pc |-> "connect",
     attempts |-> 0, slept |-> 0, cycle |-> 0, idx |-> 0,
     received |-> <<>>, before |-> <<0, 0>>, done |-> NoPoint,
     logged |-> FALSE, result |-> "none"]

InitPoller ==
    /\ collector \in {NewCollector(r, ps) : r \in RetryCounts, ps \in PointLists}
    /\ ctxDone = FALSE
    /\ CsvAndProtoParked
    /\ FleetParked
    /\ PoolParked
    /\ StorageParked
    /\ DedupParked
    /\ DbParked
    /\ SimParked

outsidePoller == <<tables, protoOnly, csvVars, fleetVars, pool, storage, dedup, db, sim>>

\* h.Connect() succeeds: the loop is left and the first pollOnce begins
ConnectOk ==
    /\ collector.pc = "connect"
    /\ IF collector.attempts <= ConnectRetries(collector.retryCount)
       THEN collector' = [collector EXCEPT !.pc = "cycle", !.cycle = 1, !.idx = 0,
                                           !.result = "connected"]
       ELSE collector' = [collector EXCEPT !.pc = "cycle", !.cycle = 1, !.idx = 0,
                                           !.result = "no call"]
    /\ UNCHANGED <<ctxDone, outsidePoller>>

\* h.Connect() fails: the last attempt returns the error, any other waits
ConnectFail ==
    /\ collector.pc = "connect"
    /\ collector.attempts <= ConnectRetries(collector.retryCount)
    /\ IF collector.attempts = ConnectRetries(collector.retryCount)
       THEN collector' = [collector EXCEPT !.pc = "stopped", !.result = "connect error"]
       ELSE collector' = [collector EXCEPT !.pc = "backoff"]
    /\ UNCHANGED <<ctxDone, outsidePoller>>

\* select: case <-time.After(time.Second): continue (attempts++)
BackoffOver ==
    /\ collector.pc = "backoff"
    /\ collector' = [collector EXCEPT !.pc = "connect", !.attempts = @ + 1,
                                        !.slept = @ + BackoffSeconds]
    /\ UNCHANGED <<ctxDone, outsidePoller>>

\* select: case <-ctx.Done(): return ctx.Err()
BackoffCancelled ==
    /\ collector.pc = "backoff"
    /\ ctxDone
    /\ collector' = [collector EXCEPT !.pc = "stopped", !.result = "cancelled"]
    /\ UNCHANGED <<ctxDone, outsidePoller>>

\* one run of the loop body of pollOnce, and pollOnce's return after the last
\* point or on an error
PollPoint ==
    /\ collector.pc = "cycle"
    /\ LET c == collector
           p == c.points[c.idx + 1]
       IN IF ctxDone
          THEN collector' = [c EXCEPT !.pc = "idle", !.logged = TRUE,
                                      !.done = [kind |-> "cancelled", cycle |-> c.cycle,
                                                idx |-> c.idx]]
          ELSE \E r1 \in ReadResults, connected \in BOOLEAN, r2 \in ReadResults :
                  LET res == pollPoint(p, r1, connected, r2)
                      over == res.err \/ c.idx + 1 = Len(c.points)
                  IN collector' =
                        [c EXCEPT !.pc = IF over THEN "idle" ELSE "cycle",
                                  !.idx = IF res.err THEN @ ELSE @ + 1,
                                  !.logged = res.err,
                                  !.received = IF res.emit
                                               THEN Handler(@, c.cycle, c.idx)
                                               ELSE @,
                                  !.done = [kind |-> "read", cycle |-> c.cycle,
                                            idx |-> c.idx, res |-> res,
                                            connected |-> (connected /\ res.reconnects > 0)]]
    /\ UNCHANGED <<ctxDone, outsidePoller>>

\* select: case <-ticker.C: the next pollOnce begins
Tick ==
    /\ collector.pc = "idle"
    /\ collector.cycle < MaxCycles
    /\ collector' = [collector EXCEPT !.pc = "cycle", !.cycle = @ + 1, !.idx = 0,
                                        !.received = <<>>,
                                        !.before = IF collector.received = <<>> THEN @
                                                   ELSE collector.received[Len(collector.received)]]
    /\ UNCHANGED <<ctxDone, outsidePoller>>

\* select: case <-ctx.Done(): return nil
PollerCancelled ==
    /\ collector.pc = "idle"
    /\ ctxDone
    /\ collector' = [collector EXCEPT !.pc = "stopped", !.result = "returned nil"]
    /\ UNCHANGED <<ctxDone, outsidePoller>>

\* the context of the poller is cancelled
PollerCancel ==
    /\ ~ctxDone
    /\ ctxDone' = TRUE
    /\ UNCHANGED <<collector, outsidePoller>>

NextPoller ==
    \/ ConnectOk
    \/ ConnectFail
    \/ BackoffOver
    \/ BackoffCancelled
    \/ PollPoint
    \/ Tick
    \/ PollerCancelled
    \/ PollerCancel

SpecPoller == InitPoller /\ [][NextPoller]_vars

\* ---------------------------------------------------------------------------
\* The device poller: connect retries, failed reads, order of the values
\* ---------------------------------------------------------------------------

\* the retries the configuration allows the poller at start
AllowedConnectRetries ==
    IF collector.retryCount < 0 THEN 0 ELSE collector.retryCount

Polling == collector.pc \in {"cycle", "idle"}

\* attempt k is made after k backoffs of one second; the poller polls only
\* after a Connect that succeeded; it stops with the connect error only after
\* the last allowed attempt and has then never polled, as when it was
\* cancelled in a backoff
PollerStartState ==
    /\ collector.slept = collector.attempts
    /\ collector.pc = "connect" => collector.attempts <= AllowedConnectRetries
    /\ collector.pc = "backoff" => collector.attempts < AllowedConnectRetries
    /\ Polling => collector.result = "connected" /\ collector.cycle >= 1
    /\ collector.result = "connect error" =>
          /\ collector.pc = "stopped"
          /\ collector.attempts = AllowedConnectRetries
          /\ collector.cycle = 0 /\ collector.received = <<>>
    /\ collector.result = "cancelled" =>
          /\ collector.pc = "stopped"
          /\ collector.cycle = 0 /\ collector.received = <<>>

\* an attempt follows another only after a backoff; a Connect that succeeds
\* starts the first poll cycle; a backoff ends in the next attempt or, on
\* cancellation, in the end of the poller; a stopped poller does nothing more
PollerStartStep ==
    /\ collector'.attempts # collector.attempts =>
          /\ collector.pc = "backoff" /\ collector'.pc = "connect"
          /\ collector'.attempts = collector.attempts + 1
    /\ collector.pc = "connect" /\ collector'.result = "connected" =>
          collector'.pc = "cycle" /\ collector'.cycle = 1 /\ collector'.idx = 0
    /\ collector.pc = "backoff" /\ collector'.pc = "stopped" =>
          ctxDone /\ collector'.result = "cancelled"
    /\ collector.pc = "stopped" => collector' = collector

\* C11: at start the poller makes at most retryCount + 1 connect attempts (a
\* negative retryCount counted as 0), one second of backoff between two; the
\* first success moves it to polling; after the last failed attempt it stops
\* with an error and never polls; a cancellation during a backoff stops it
\* with no further attempt.
PollerConnectsWithRetries == []PollerStartState /\ [][PollerStartStep]_vars

\* the third attempt of a poller with two retries succeeded
ThirdConnectSucceededSeen ==
    /\ collector.pc = "cycle"
    /\ collector.retryCount = 2
    /\ collector.attempts = 2
    /\ collector.slept = 2

\* the step is a run of the loop body of pollOnce whose first read failed
FirstReadFailed ==
    /\ collector.pc = "cycle"
    /\ collector'.done # collector.done \/ collector'.pc # collector.pc
    /\ collector'.done.kind = "read"
    /\ collector'.done.res.first # "ok"

LastPoint == collector.idx + 1 = Len(collector.points)

\* after a failed read: one reconnect; one more read if it succeeded and none
\* if not; when the second read succeeds the value goes to the handler and
\* the cycle goes on with the next point (or ends without error after the
\* last); otherwise the error is logged, nothing is emitted and the poller
\* waits for the next tick
FailedReadStep ==
    FirstReadFailed =>
       LET d == collector'.done IN
       /\ d.res.reconnects = 1
       /\ d.res.reads = IF d.connected THEN 2 ELSE 1
       /\ IF d.connected /\ d.res.second = "ok"
          THEN /\ collector'.received =
                     Append(collector.received, <<collector.cycle, collector.idx>>)
               /\ ~collector'.logged
               /\ collector'.idx = collector.idx + 1
               /\ collector'.pc = IF LastPoint THEN "idle" ELSE "cycle"
          ELSE /\ collector'.received = collector.received
               /\ collector'.logged
               /\ collector'.pc = "idle"

\* a poller between two cycles takes the next tick
IdleTakesTick ==
    collector.pc = "idle" /\ collector.cycle < MaxCycles =>
        /\ ENABLED Tick
        /\ ENABLED (Tick /\ collector'.pc = "cycle" /\ collector'.idx = 0)

\* C12: when a point read fails in a poll cycle the poller makes exactly one
\* reconnect and, if it succeeds, exactly one retry of the read; a retry that
\* succeeds emits the value and the cycle goes on; when the reconnect or the
\* retry fails the error is logged, the poller stays alive and polls again at
\* the next tick.
FailedReadReconnectsOnce == []IdleTakesTick /\ [][FailedReadStep]_vars

\* a retry succeeded before the last point and the cycle went on
RetrySucceededSeen ==
    /\ collector.pc = "cycle"
    /\ collector.done.kind = "read"
    /\ collector.done.res.first = "read error"
    /\ collector.done.connected
    /\ collector.done.res.second = "ok"
    /\ collector.idx = collector.done.idx + 1

\* decoding the point that was polled last failed
DecodeFailed ==
    /\ collector.done.kind = "read"
    /\ \/ collector.done.res.second = "decode error"
       \/ collector.done.res.first = "decode error" /\ collector.done.res.second = "none"

\* C13: when decoding one point fails the error is logged and only that
\* point is skipped in the cycle: the later points of the cycle are still
\* read, so the cycle does not end there unless the point was the last.
DecodeErrorSkipsOnlyThatPoint ==
    DecodeFailed /\ collector.cycle = collector.done.cycle /\ ~ctxDone =>
        \/ collector.done.idx + 1 = Len(collector.points)
        \/ collector.pc = "cycle" /\ collector.idx = collector.done.idx + 1

\* the handler has received, in the current cycle, values of that cycle in
\* the order of the points, of points already polled; what it received
\* before is of an earlier cycle
ReceivedInOrder ==
    /\ \A k \in 1..Len(collector.received) :
          /\ collector.received[k][1] = collector.cycle
          /\ collector.received[k][2] < collector.idx + (IF collector.logged THEN 1 ELSE 0)
          /\ k > 1 => collector.received[k - 1][2] < collector.received[k][2]
    /\ collector.before[1] < collector.cycle \/ collector.before = <<0, 0>>

\* each run of the loop body reads the point after the one read before; the
\* handler receives one value at a time, that of the point just read; a new
\* cycle begins at the first point after the last value of the cycle before
PollStepInOrder ==
    /\ collector'.cycle >= collector.cycle
    /\ collector'.cycle = collector.cycle =>
          /\ collector'.idx \in {collector.idx, collector.idx + 1}
          /\ \/ collector'.received = collector.received
             \/ /\ collector'.received =
                      Append(collector.received, <<collector.cycle, collector.idx>>)
                /\ collector'.done.idx = collector.idx
                /\ collector'.idx = collector.idx + 1
    /\ collector'.cycle # collector.cycle =>
          /\ collector'.cycle = collector.cycle + 1
          /\ collector'.idx = 0
          /\ collector'.received = <<>>
          /\ collector.received # <<>> =>
                collector'.before = collector.received[Len(collector.received)]
    /\ collector'.done # collector.done /\ collector'.done.kind = "read" =>
          collector'.done.idx = collector.idx /\ collector'.done.cycle = collector.cycle

\* C14: within one poller the points are read one at a time in declared
\* order, the handler receives the values in that order, and no value of a
\* later cycle is emitted before a value of an earlier cycle.
ValuesEmittedInOrder == []ReceivedInOrder /\ [][PollStepInOrder]_vars

\* two values received in the second cycle, after a value of the first
TwoCyclesReceivedSeen ==
    /\ collector.pc # "off"
    /\ collector.cycle = 2
    /\ Len(collector.received) = 2
    /\ collector.before[1] = 1

----------------------------------------------------------------------------
(* SpecPool: Manager.Run of the collectors *)

\* device pollers the configuration gives
NumPollers == 2

\* maxW = 10 when processing.max_workers is not positive
DefaultMaxWorkers == 10

WorkerLimit(maxWorkers) == IF maxWorkers <= 0 THEN DefaultMaxWorkers ELSE maxWorkers

MaxWorkersSettings == {0, 1, 2}

PollerIDs == 1..NumPollers

\* case sem <- struct{}{}: the send goes through while the channel has room
SlotAlwaysFree(taken, capacity) == TRUE

SlotFree(taken, capacity) == taken < capacity

\* case <-time.After(5 * time.Second)
GraceOverAtOnce(seconds) == TRUE

GraceOver(seconds) == seconds >= GraceSeconds

\* system.storage.file_type as the configuration file may give it
FileTypeSettings == {"", "log", " JSON", "xml"}

\* strings.ToLower(strings.TrimSpace(s)), on the strings that occur here
ToLowerTrimSpace(s) == IF s = " JSON" THEN "json" ELSE s

\* LoadYAML: the file type in lower case without the spaces around it, "csv"
\* when that is empty; no other check of it
LoadedFileType(ft) ==
    IF ToLowerTrimSpace(ft) = "" THEN "csv" ELSE ToLowerTrimSpace(ft)

\* the file types Manager.Run hands to NewStorage, which NewStorage accepts
StorageFileTypes ==
    {"", "csv", "json", "jsonl", "json+csv", "csv+json", "both", "all",
     "db", "json+db", "db+json", "csv+db", "db+csv"}

\* Manager.Run: a Storage is started (store # nil) when storage is enabled
\* and the file type is one of these; "log" and any other file type leave
\* Run without a Storage, the latter with a line in the log
StoreStarted(st) == st.Enabled /\ ToLowerTrimSpace(st.FileType) \in StorageFileTypes

\* pc of a poller's goroutine: "wait" (at the select on the semaphore), "run"
\* (in c.Run), "done" (returned); slot says it took a worker slot, connected
\* that c.Run has called Connect with success.  mgr is where Manager.Run
\* stands: "waiting" (at <-ctx.Done()), "grace" (at the select on done and
\* the timer), "closing" (in store.Close, at <-s.closed), "returned",
\* "panicked" (a send on the closed queue ended the process).  seconds is the
\* time since the select began, queued whether the storage queue holds a
\* value, queueClosed that close(s.q) was called, consumerDone that the
\* consumer goroutine closed s.closed.
NewPool(maxWorkers, st) ==
    [maxWorkers |-> maxWorkers, storage |-> st, withStore |-> StoreStarted(st),
     poller |-> [i \in PollerIDs |-> [pc |-> "wait", slot |-> FALSE, connected |-> FALSE]],
     taken |-> 0, mgr |-> "waiting", seconds |-> 0, timedOut |-> FALSE,
     queued |-> FALSE, queueClosed |-> FALSE, consumerDone |-> FALSE]

InitPool ==
    /\ pool \in {NewPool(w, [Enabled |-> en, FileType |-> LoadedFileType(ft)]) :
                      w \in MaxWorkersSettings, en \in BOOLEAN, ft \in FileTypeSettings}
    /\ ctxDone = FALSE
    /\ CsvAndProtoParked
    /\ FleetParked
    /\ CollectorParked
    /\ StorageParked
    /\ DedupParked
    /\ DbParked
    /\ SimParked

outsidePool == <<tables, protoOnly, csvVars, fleetVars, collector, storage, dedup, db, sim>>

AllReturned == \A i \in PollerIDs : pool.poller[i].pc = "done"

Alive == pool.mgr # "panicked"

\* select: case sem <- struct{}{}
AcquireWorker(i) ==
    /\ Alive
    /\ pool.poller[i].pc = "wait"
    /\ SlotFree(pool.taken, WorkerLimit(pool.maxWorkers))
    /\ pool' = [pool EXCEPT !.poller[i].pc = "run", !.poller[i].slot = TRUE,
                            !.taken = @ + 1]
    /\ UNCHANGED <<ctxDone, outsidePool>>

\* select: case <-ctx.Done(): return
WaitCancelled(i) ==
    /\ Alive
    /\ pool.poller[i].pc = "wait"
    /\ ctxDone
    /\ pool' = [pool EXCEPT !.poller[i].pc = "done"]
    /\ UNCHANGED <<ctxDone, outsidePool>>

\* c.Run: a Connect of the start loop succeeds
PollerConnect(i) ==
    /\ Alive
    /\ pool.poller[i].pc = "run"
    /\ ~pool.poller[i].connected
    /\ pool' = [pool EXCEPT !.poller[i].connected = TRUE]
    /\ UNCHANGED <<ctxDone, outsidePool>>

\* c.Run: a value goes to the handler, which sends it to the storage queue;
\* a send on the closed queue panics
PollerHandle(i) ==
    /\ Alive
    /\ pool.withStore
    /\ pool.poller[i].pc = "run"
    /\ pool.poller[i].connected
    /\ IF pool.queueClosed
       THEN pool' = [pool EXCEPT !.mgr = "panicked"]
       ELSE ~pool.queued /\ pool' = [pool EXCEPT !.queued = TRUE]
    /\ UNCHANGED <<ctxDone, outsidePool>>

\* c.Run returns: with the connect error, or after the cancellation; the
\* deferred <-sem gives the slot back
PollerReturn(i) ==
    /\ Alive
    /\ pool.poller[i].pc = "run"
    /\ ~pool.poller[i].connected \/ ctxDone
    /\ pool' = [pool EXCEPT !.poller[i].pc = "done", !.taken = @ - 1]
    /\ UNCHANGED <<ctxDone, outsidePool>>

\* the context of the manager is cancelled
PoolCancel ==
    /\ ~ctxDone
    /\ ctxDone' = TRUE
    /\ UNCHANGED <<pool, outsidePool>>

\* <-ctx.Done() returns; the select on done and the timer begins
AwaitCancel ==
    /\ pool.mgr = "waiting"
    /\ ctxDone
    /\ pool' = [pool EXCEPT !.mgr = "grace", !.seconds = 0]
    /\ UNCHANGED <<ctxDone, outsidePool>>

\* a second passes while the manager waits for pollers that have not returned
GraceSecond ==
    /\ pool.mgr = "grace"
    /\ ~AllReturned
    /\ pool.seconds < GraceSeconds
    /\ pool' = [pool EXCEPT !.seconds = @ + 1]
    /\ UNCHANGED <<ctxDone, outsidePool>>

\* after the select: storeClose() if there is a storage -- close(s.q), then
\* wait for the consumer -- else return nil
AfterGrace(timedOut) ==
    IF pool.withStore
    THEN pool' = [pool EXCEPT !.mgr = "closing", !.queueClosed = TRUE,
                              !.timedOut = timedOut]
    ELSE pool' = [pool EXCEPT !.mgr = "returned", !.timedOut = timedOut]

\* select: case <-done (wg.Wait() returned)
GraceDone ==
    /\ pool.mgr = "grace"
    /\ AllReturned
    /\ AfterGrace(FALSE)
    /\ UNCHANGED <<ctxDone, outsidePool>>

\* select: case <-time.After(5 * time.Second)
GraceTimeout ==
    /\ pool.mgr = "grace"
    /\ GraceOver(pool.seconds)
    /\ AfterGrace(TRUE)
    /\ UNCHANGED <<ctxDone, outsidePool>>

\* the consumer takes a value from the queue and writes it
ConsumerWrite ==
    /\ Alive
    /\ pool.queued
    /\ pool' = [pool EXCEPT !.queued = FALSE]
    /\ UNCHANGED <<ctxDone, outsidePool>>

\* the range over the closed, empty queue ends: flush, close(s.closed)
ConsumerFinish ==
    /\ Alive
    /\ pool.queueClosed
    /\ ~pool.queued
    /\ ~pool.consumerDone
    /\ pool' = [pool EXCEPT !.consumerDone = TRUE]
    /\ UNCHANGED <<ctxDone, outsidePool>>

\* <-s.closed in Close returns, the files are closed, Run returns nil
StoreClosed ==
    /\ pool.mgr = "closing"
    /\ pool.consumerDone
    /\ pool' = [pool EXCEPT !.mgr = "returned"]
    /\ UNCHANGED <<ctxDone, outsidePool>>

NextPool ==
    \/ \E i \in PollerIDs : AcquireWorker(i)
    \/ \E i \in PollerIDs : WaitCancelled(i)
    \/ \E i \in PollerIDs : PollerConnect(i)
    \/ \E i \in PollerIDs : PollerHandle(i)
    \/ \E i \in PollerIDs : PollerReturn(i)
    \/ PoolCancel
    \/ AwaitCancel
    \/ GraceSecond
    \/ GraceDone
    \/ GraceTimeout
    \/ ConsumerWrite
    \/ ConsumerFinish
    \/ StoreClosed

SpecPool == InitPool /\ [][NextPool]_vars

\* ---------------------------------------------------------------------------
\* The collectors' manager: worker slots and shutdown
\* ---------------------------------------------------------------------------

\* max_workers, 10 when it is not positive
MaxWorkersAllowed == IF pool.maxWorkers <= 0 THEN 10 ELSE pool.maxWorkers

Executing == {i \in PollerIDs : pool.poller[i].pc = "run"}

\* no more pollers execute than max_workers allows, each holding one slot; a
\* poller that never took a slot has never connected
WorkersWithinLimit ==
    /\ Cardinality(Executing) <= MaxWorkersAllowed
    /\ pool.taken = Cardinality(Executing)
    /\ \A i \in PollerIDs :
          /\ pool.poller[i].pc = "run" => pool.poller[i].slot
          /\ pool.poller[i].connected => pool.poller[i].slot
          /\ pool.poller[i].pc = "wait" => ~pool.poller[i].slot

\* a poller leaves the wait for a slot by taking one or, cancelled, by
\* returning without one; one that has returned stays so
WorkerSlotStep ==
    \A i \in PollerIDs :
       /\ pool.poller[i].pc = "wait" /\ pool'.poller[i].pc = "done" =>
             /\ ctxDone
             /\ ~pool'.poller[i].slot /\ ~pool'.poller[i].connected
       /\ pool.poller[i].pc = "done" => pool'.poller[i] = pool.poller[i]

\* C15: at every moment at most max_workers pollers (10 when max_workers <= 0)
\* are executing; a poller cancelled while it waits for a worker slot returns
\* without ever connecting.
PollersWithinMaxWorkers == []WorkersWithinLimit /\ [][WorkerSlotStep]_vars

\* with one worker slot a poller executes, connected, while another, which
\* was cancelled in its wait, has returned
CancelledInWaitSeen ==
    /\ pool.mgr # "off"
    /\ pool.maxWorkers = 1
    /\ \E i \in PollerIDs, j \in PollerIDs :
          /\ pool.poller[i].pc = "run" /\ pool.poller[i].connected
          /\ pool.poller[j].pc = "done" /\ ~pool.poller[j].slot

\* the queue is closed only after the cancellation and the grace period, which
\* lasts no more than 5 seconds; Run has returned only after the consumer
\* finished, when there is a storage
ShutdownState ==
    /\ pool.mgr \in {"grace", "closing", "returned"} => ctxDone
    /\ pool.seconds <= 5
    /\ pool.queueClosed => pool.mgr \in {"closing", "returned", "panicked"}
    /\ pool.mgr = "returned" /\ pool.withStore =>
          pool.queueClosed /\ pool.consumerDone /\ ~pool.queued
    /\ pool.consumerDone => pool.queueClosed

\* the manager leaves the grace period when all pollers have returned or when
\* 5 seconds have passed, and does not stay in it beyond 5 seconds; only then
\* the queue is closed; Run returns from the close only when the consumer has
\* finished
ShutdownStep ==
    /\ pool.mgr = "waiting" /\ pool'.mgr # "waiting" =>
          pool'.mgr = "grace" /\ pool'.seconds = 0
    /\ pool.mgr = "grace" /\ pool'.mgr # "grace" =>
          AllReturned \/ pool.seconds = 5
    /\ pool'.queueClosed /\ ~pool.queueClosed =>
          /\ pool.mgr = "grace"
          /\ AllReturned \/ pool.seconds = 5
    /\ pool.mgr = "closing" /\ pool'.mgr = "returned" => pool.consumerDone

\* C19: after the cancellation the collectors' manager waits until all
\* pollers have returned or 5 s have passed, whichever comes first, only then
\* closes the storage queue, and returns only after the storage consumer has
\* finished.
ManagerShutsDownInOrder == []ShutdownState /\ [][ShutdownStep]_vars

\* Run returned after the grace period ran out on a poller still executing
GraceTimedOutSeen ==
    /\ pool.mgr = "returned"
    /\ pool.withStore
    /\ pool.timedOut
    /\ pool.seconds = 5
    /\ ~AllReturned

\* the file types the spec recognises
RecognizedFileTypes ==
    {"log", "csv", "json", "jsonl", "db", "json+csv", "csv+json", "both",
     "json+db", "db+json", "csv+db", "db+csv", "all"}

(* C25: with storage enabled and a file_type outside log, csv, json,       *)
(* jsonl, db, json+csv, csv+json, both, json+db, db+json, csv+db, db+csv   *)
(* and all, the collector fails at startup: no poller is started, none     *)
(* connects to its device and no value is handled.                         *)
UnknownFileTypeStopsStartup ==
    pool.storage.Enabled /\ pool.storage.FileType \notin RecognizedFileTypes =>
        \A i \in PollerIDs : /\ pool.poller[i].pc # "run"
                             /\ ~pool.poller[i].connected

----------------------------------------------------------------------------
(* SpecStore: one Storage -- Handle, the queue, the consumer, Close *)

\* calls of Handle in one run
MaxValues == 3

\* make(chan PointValue, maxQueueIfPositive(maxQueue, 1000))
DefaultQueueSize == 1000

\* timer := time.NewTimer(2 * time.Second)
HandleWaitSeconds == 2

maxQueueUnchecked(v, def) == v

maxQueueIfPositive(v, def) == IF v > 0 THEN v ELSE def

MaxQueueSettings == {0, 1, 2}

FileTypes == {"json", "csv+db", "all"}

\* the switch of NewStorage on the file type: the sinks it enables
EnabledSinks(ft) ==
    CASE ft \in {"json", "jsonl"} -> {"json"}
      [] ft = "csv" -> {"csv"}
      [] ft = "db" -> {"db"}
      [] ft \in {"json+csv", "csv+json", "both"} -> {"json", "csv"}
      [] ft \in {"json+db", "db+json"} -> {"json", "db"}
      [] ft \in {"csv+db", "db+csv"} -> {"csv", "db"}
      [] ft \in {"all", ""} -> {"json", "csv", "db"}
      [] OTHER -> {}

Devices == {1, 2}

\* the body of the consumer's loop for value v: what it appends to the log of
\* writes
writeValueCsvFirst(v, sinks) ==
    (IF "csv" \in sinks THEN <<(<<"csv", v>>)>> ELSE <<>>)
        \o (IF "json" \in sinks THEN <<(<<"json", v>>)>> ELSE <<>>)
        \o (IF "db" \in sinks THEN <<(<<"db", v>>)>> ELSE <<>>)

writeValue(v, sinks) ==
    (IF "json" \in sinks THEN <<(<<"json", v>>)>> ELSE <<>>)
        \o (IF "csv" \in sinks THEN <<(<<"csv", v>>)>> ELSE <<>>)
        \o (IF "db" \in sinks THEN <<(<<"db", v>>)>> ELSE <<>>)

\* the values written to one sink, in the order of the writes
RowsOf(log, sink) ==
    LET rows[k \in 0..Len(log)] ==
            IF k = 0 THEN <<>>
            ELSE IF log[k][1] = sink THEN Append(rows[k - 1], log[k][2])
                 ELSE rows[k - 1]
    IN rows[Len(log)]

\* s.jsonWriter.Flush() / s.csvWriter.Flush(): what the file holds afterwards
FlushNothing(file, log, sink) == file

Flush(file, log, sink) == RowsOf(log, sink)

NoCall == [state |-> "none"]

\* q is the queue, call the Handle that waits for room (its value and the
\* seconds it has waited), handled the calls of Handle so far, accepted the
\* values sent to the queue, in order, dropped those Handle gave up, writes
\* the log of the consumer's writes (sink, value), jsonFile and csvFile what
\* the flushed files hold, consumer "running" or "done" (s.closed is
\* closed), pc "open", "closing" (in Close, at <-s.closed), "closed" (Close
\* returned, files and database closed) or "panicked" (send on the closed
\* queue), lastErr whether the last Handle returned an error.
NewStorage(maxQueue, ft) ==
    [maxQueue |-> maxQueue, fileType |-> ft, q |-> <<>>, call |-> NoCall,
     handled |-> 0, accepted |-> <<>>, dropped |-> {}, writes |-> <<>>,
     jsonFile |-> <<>>, csvFile |-> <<>>, consumer |-> "running", pc |-> "open",
     lastErr |-> FALSE]

InitStore ==
    /\ storage \in {NewStorage(m, ft) : m \in MaxQueueSettings, ft \in FileTypes}
    /\ ctxDone = FALSE
    /\ CsvAndProtoParked
    /\ FleetParked
    /\ CollectorParked
    /\ PoolParked
    /\ DedupParked
    /\ DbParked
    /\ SimParked

outsideStore == <<tables, protoOnly, csvVars, ctxDone, fleetVars, collector, pool, dedup, db, sim>>

Capacity == maxQueueIfPositive(storage.maxQueue, DefaultQueueSize)

QueueClosed == storage.pc \in {"closing", "closed"}

Enqueue(v) ==
    storage' = [storage EXCEPT !.q = Append(@, v), !.accepted = Append(@, v),
                               !.call = NoCall, !.lastErr = FALSE]

\* Handle(v): the first select -- the send goes through when the queue has
\* room, else the timer is started and the second select begins
Handle(dev) ==
    /\ storage.pc # "panicked"
    /\ storage.call.state = "none"
    /\ storage.handled < MaxValues
    /\ LET v == <<dev, storage.handled + 1>> IN
       IF QueueClosed
       THEN storage' = [storage EXCEPT !.pc = "panicked", !.handled = @ + 1]
       ELSE IF Len(storage.q) < Capacity
            THEN storage' = [storage EXCEPT !.q = Append(@, v),
                                            !.accepted = Append(@, v),
                                            !.handled = @ + 1, !.lastErr = FALSE]
            ELSE storage' = [storage EXCEPT !.handled = @ + 1,
                                            !.call = [state |-> "blocked", v |-> v,
                                                      waited |-> 0]]
    /\ UNCHANGED outsideStore

\* a second passes while Handle waits on the full queue
HandleSecond ==
    /\ storage.pc = "open"
    /\ storage.call.state = "blocked"
    /\ Len(storage.q) >= Capacity
    /\ storage.call.waited < HandleWaitSeconds
    /\ storage' = [storage EXCEPT !.call.waited = @ + 1]
    /\ UNCHANGED outsideStore

\* second select: case s.q <- v
HandleLate ==
    /\ storage.pc = "open"
    /\ storage.call.state = "blocked"
    /\ Len(storage.q) < Capacity
    /\ Enqueue(storage.call.v)
    /\ UNCHANGED outsideStore

\* second select: case <-timer.C: the value is dropped with an error
HandleTimeout ==
    /\ storage.pc = "open"
    /\ storage.call.state = "blocked"
    /\ storage.call.waited >= HandleWaitSeconds
    /\ storage' = [storage EXCEPT !.dropped = @ \cup {storage.call.v},
                                  !.call = NoCall, !.lastErr = TRUE]
    /\ UNCHANGED outsideStore

\* the consumer: for v := range s.q { writeJSONL; writeCSV; writeDB }
ConsumerTake ==
    /\ storage.pc # "panicked"
    /\ storage.consumer = "running"
    /\ storage.q # <<>>
    /\ storage' = [storage EXCEPT
                      !.q = Tail(@),
                      !.writes = @ \o writeValue(Head(storage.q),
                                                 EnabledSinks(storage.fileType))]
    /\ UNCHANGED outsideStore

\* the range ends on the closed, empty queue: Flush both writers, close(s.closed)
ConsumerEnd ==
    /\ storage.pc = "closing"
    /\ storage.consumer = "running"
    /\ storage.q = <<>>
    /\ storage' = [storage EXCEPT
                      !.jsonFile = Flush(@, storage.writes, "json"),
                      !.csvFile = Flush(@, storage.writes, "csv"),
                      !.consumer = "done"]
    /\ UNCHANGED outsideStore

\* Close: close(s.q); a Handle blocked in its send panics
StorageClose ==
    /\ storage.pc = "open"
    /\ IF storage.call.state = "blocked"
       THEN storage' = [storage EXCEPT !.pc = "panicked"]
       ELSE storage' = [storage EXCEPT !.pc = "closing"]
    /\ UNCHANGED outsideStore

\* Close: <-s.closed returns; the files and the database are closed
StorageClosed ==
    /\ storage.pc = "closing"
    /\ storage.consumer = "done"
    /\ storage' = [storage EXCEPT !.pc = "closed"]
    /\ UNCHANGED outsideStore

NextStore ==
    \/ \E dev \in Devices : Handle(dev)
    \/ HandleSecond
    \/ HandleLate
    \/ HandleTimeout
    \/ ConsumerTake
    \/ ConsumerEnd
    \/ StorageClose
    \/ StorageClosed

SpecStore == InitStore /\ [][NextStore]_vars

\* ---------------------------------------------------------------------------
\* The storage: backpressure, order of the writes, Close
\* ---------------------------------------------------------------------------

\* max_queue_size, 1000 when it is not positive
QueueSizeAllowed == IF storage.maxQueue > 0 THEN storage.maxQueue ELSE 1000

InLog(v) == \E k \in 1..Len(storage.writes) : storage.writes[k][2] = v

InSeq(v, seq) == \E k \in 1..Len(seq) : seq[k] = v

\* the queue is within its size; Handle waits only on a full queue, and no
\* more than 2 seconds; a dropped value is neither queued nor written
BackpressureState ==
    /\ Len(storage.q) <= QueueSizeAllowed
    /\ storage.call.state = "blocked" => storage.call.waited <= 2
    /\ \A v \in storage.dropped :
          ~InSeq(v, storage.q) /\ ~InSeq(v, storage.accepted) /\ ~InLog(v)

\* a Handle that finds room enqueues at once; one that does not waits, and
\* ends by enqueueing when room appears or, after 2 seconds, with an error
BackpressureStep ==
    /\ storage'.handled = storage.handled + 1 /\ storage'.pc = "open" =>
          IF Len(storage.q) < QueueSizeAllowed
          THEN /\ storage'.call.state = "none" /\ ~storage'.lastErr
               /\ Len(storage'.q) = Len(storage.q) + 1
               /\ storage'.q = Append(storage.q, <<storage'.q[Len(storage'.q)][1],
                                                   storage'.handled>>)
          ELSE /\ storage'.call.state = "blocked" /\ storage'.call.waited = 0
               /\ storage'.q = storage.q
    /\ storage.call.state = "blocked" /\ storage'.call.state = "none" =>
          \/ /\ Len(storage.q) < QueueSizeAllowed
             /\ storage'.q = Append(storage.q, storage.call.v)
             /\ ~storage'.lastErr /\ storage'.dropped = storage.dropped
          \/ /\ storage.call.waited = 2
             /\ storage'.lastErr
             /\ storage'.dropped = storage.dropped \cup {storage.call.v}
             /\ storage'.q = storage.q
    /\ storage'.dropped # storage.dropped => storage.call.state = "blocked"

\* C16: Handle enqueues at once when the queue has room; when the queue is
\* full it waits at most 2 s for room and, if none appears, returns an error
\* and the value is never written to any sink; the queue never holds more
\* than max_queue_size values (1000 when not positive).
HandleEnqueuesOrDrops == []BackpressureState /\ [][BackpressureStep]_vars

\* a value was dropped after 2 seconds while later values were written
DroppedValueSeen ==
    /\ storage.pc = "closed"
    /\ storage.dropped # {}
    /\ storage.lastErr
    /\ Len(storage.writes) >= 2

\* the rows the consumer writes for the first n accepted values
RECURSIVE ExpectedWrites(_)
ExpectedWrites(n) ==
    IF n = 0 THEN <<>>
    ELSE LET v == storage.accepted[n]
             sinks == EnabledSinks(storage.fileType)
         IN ExpectedWrites(n - 1)
               \o (IF "json" \in sinks THEN <<(<<"json", v>>)>> ELSE <<>>)
               \o (IF "csv" \in sinks THEN <<(<<"csv", v>>)>> ELSE <<>>)
               \o (IF "db" \in sinks THEN <<(<<"db", v>>)>> ELSE <<>>)

Taken == Len(storage.accepted) - Len(storage.q)

\* the values of device dev in seq, in order
RECURSIVE OfDevice(_, _)
OfDevice(seq, dev) ==
    IF seq = <<>> THEN <<>>
    ELSE IF Head(seq)[1] = dev THEN <<Head(seq)>> \o OfDevice(Tail(seq), dev)
         ELSE OfDevice(Tail(seq), dev)

\* C17: the consumer writes the values to every enabled sink in the order in
\* which they were enqueued, for each value JSONL, then CSV, then SQL, before
\* it takes the next value; so in each sink the rows of one device are in the
\* order in which the device's poller emitted them.
ConsumerWritesInOrder ==
    /\ Taken >= 0
    /\ storage.q = SubSeq(storage.accepted, Taken + 1, Len(storage.accepted))
    /\ storage.writes = ExpectedWrites(Taken)
    /\ \A sink \in EnabledSinks(storage.fileType), dev \in Devices :
          OfDevice(RowsOf(storage.writes, sink), dev)
             = OfDevice(SubSeq(storage.accepted, 1, Taken), dev)
    /\ \A k \in 1..Len(storage.accepted) - 1 :
          storage.accepted[k][2] < storage.accepted[k + 1][2]

\* two values written to all three sinks
TwoValuesInThreeSinksSeen ==
    /\ storage.pc = "open"
    /\ storage.fileType = "all"
    /\ Len(storage.writes) = 6
    /\ storage.accepted[1][1] # storage.accepted[2][1]

\* C18: Close returns only after every value Handle accepted into the queue
\* has been written to all enabled sinks and the buffered writers have been
\* flushed; the files and the database are closed only after that.
CloseAfterDrainAndFlush ==
    storage.pc = "closed" =>
        /\ storage.q = <<>>
        /\ storage.consumer = "done"
        /\ \A sink \in EnabledSinks(storage.fileType) :
              RowsOf(storage.writes, sink) = storage.accepted
        /\ "json" \in EnabledSinks(storage.fileType) => storage.jsonFile = storage.accepted
        /\ "csv" \in EnabledSinks(storage.fileType) => storage.csvFile = storage.accepted

\* Close returned with two accepted values in the flushed JSONL file
ClosedWithFlushedRowsSeen ==
    /\ storage.pc = "closed"
    /\ Len(storage.accepted) >= 2
    /\ storage.jsonFile = storage.accepted
    /\ storage.dropped = {}

----------------------------------------------------------------------------
(* SpecDedup: the dedup wrapper of Manager.Run and its ValueCache *)

\* seconds the clock runs in one run
MaxClock == 4

\* NewValueCache: ttl = time.Hour when ttl <= 0, here in seconds
DefaultTTL == 3600

NewValueCacheTTL(ttl) == IF ttl <= 0 THEN DefaultTTL ELSE ttl

TTLSettings == {0, 2}

\* values are counted in units of 1e-9: 1000000001 is 1.000000001
Nano == 1000000000

Abs(x) == IF x < 0 THEN -x ELSE x

Max3(a, b, c) ==
    IF a >= b /\ a >= c THEN a ELSE IF b >= c THEN b ELSE c

\* utils.FloatsEqual: |a - b| <= 1e-9 * max(1, |a|, |b|)
FloatsEqual(a, b) == Abs(a - b) <= (Max3(Nano, Abs(a), Abs(b)) \div Nano)

SampleValues == {1000000000, 1000000001, 1000000002, 2000000000}

\* the PointValues that reach the wrapper: one point of one device, polled
\* through two servers
PointValues ==
    {[DeviceID |-> "d1", PointName |-> "p1", Register |-> "holding",
      ServerID |-> sid, Value |-> x] : sid \in {"s1", "s2"}, x \in SampleValues}

\* key := v.DeviceID + "|" + v.PointName + "|" + v.Register + "|" + v.ServerID
CacheKey(v) == <<v.DeviceID, v.PointName, v.Register, v.ServerID>>

CacheKeys == {CacheKey(v) : v \in PointValues}

NoEntry == [set |-> FALSE]

\* time.Since(e.at) > c.ttl
ExpiredAtTTL(at, now, ttl) == now - at >= ttl

Expired(at, now, ttl) == now - at > ttl

\* ValueCache.GetValue: the value, whether there is one, and the map
\* afterwards (an expired entry is deleted)
GetValue(data, key, now, ttl) ==
    IF ~data[key].set
    THEN [v |-> 0, ok |-> FALSE, data |-> data]
    ELSE IF Expired(data[key].at, now, ttl)
         THEN [v |-> 0, ok |-> FALSE, data |-> [data EXCEPT ![key] = NoEntry]]
         ELSE [v |-> data[key].v, ok |-> TRUE, data |-> data]

\* ValueCache.SetValue
SetValue(data, key, v, now) ==
    [data EXCEPT ![key] = [set |-> TRUE, v |-> v, at |-> now]]

\* ttl is the cache's TTL, now the clock in seconds, data the cache's map,
\* out what the last call of the wrapper did with which value
InitDedup ==
    /\ dedup \in {[ttl |-> NewValueCacheTTL(t), now |-> 0,
                   data |-> [k \in CacheKeys |-> NoEntry],
                   out |-> [res |-> "none"]] : t \in TTLSettings}
    /\ ctxDone = FALSE
    /\ CsvAndProtoParked
    /\ FleetParked
    /\ CollectorParked
    /\ PoolParked
    /\ StorageParked
    /\ DbParked
    /\ SimParked

outsideDedup == <<tables, protoOnly, csvVars, ctxDone, fleetVars, collector, pool, storage, db, sim>>

\* m.OnValue with vc.SetValue before storeHandler
OnValueCachesFirst(v, stored) ==
    /\ LET key == CacheKey(v)
           got == GetValue(dedup.data, key, dedup.now, dedup.ttl)
       IN IF got.ok /\ FloatsEqual(got.v, v.Value)
          THEN dedup' = [dedup EXCEPT !.data = got.data,
                                      !.out = [res |-> "suppressed", v |-> v]]
          ELSE dedup' = [dedup EXCEPT
                            !.data = SetValue(got.data, key, v.Value, dedup.now),
                            !.out = [res |-> (IF stored THEN "written" ELSE "error"),
                                     v |-> v]]
    /\ UNCHANGED outsideDedup

\* m.OnValue(v): stored says whether storeHandler(v) returns nil
OnValue(v, stored) ==
    /\ LET key == CacheKey(v)
           got == GetValue(dedup.data, key, dedup.now, dedup.ttl)
       IN IF got.ok /\ FloatsEqual(got.v, v.Value)
          THEN dedup' = [dedup EXCEPT !.data = got.data,
                                      !.out = [res |-> "suppressed", v |-> v]]
          ELSE IF ~stored
               THEN dedup' = [dedup EXCEPT !.data = got.data,
                                           !.out = [res |-> "error", v |-> v]]
               ELSE dedup' = [dedup EXCEPT
                                 !.data = SetValue(got.data, key, v.Value, dedup.now),
                                 !.out = [res |-> "written", v |-> v]]
    /\ UNCHANGED outsideDedup

\* a second passes
ClockSecond ==
    /\ dedup.now < MaxClock
    /\ dedup' = [dedup EXCEPT !.now = @ + 1]
    /\ UNCHANGED outsideDedup

NextDedup ==
    \/ \E v \in PointValues, stored \in BOOLEAN : OnValue(v, stored)
    \/ ClockSecond

SpecDedup == InitDedup /\ [][NextDedup]_vars

\* the cache holds, under the key of v, a value equal to v's within the
\* epsilon 1e-9 * max(1, |v|, |cached|), stored at most TTL ago
CacheHit(v) ==
    LET e == dedup.data[<<v.DeviceID, v.PointName, v.Register, v.ServerID>>]
        d == IF e.v >= v.Value THEN e.v - v.Value ELSE v.Value - e.v
        m == IF e.v >= v.Value THEN e.v ELSE v.Value
    IN /\ e.set
       /\ d <= (IF m > 1000000000 THEN m \div 1000000000 ELSE 1)
       /\ dedup.now - e.at <= dedup.ttl

\* a call of the wrapper: the value is suppressed exactly on a cache hit, and
\* then the entry keeps its value and its time; a value that is written
\* becomes the entry, with the time of the write; the other keys are left
DedupStep ==
    dedup'.now = dedup.now /\ dedup'.out.res # "none" =>
       LET v == dedup'.out.v
           key == <<v.DeviceID, v.PointName, v.Register, v.ServerID>>
       IN /\ dedup'.out.res = "suppressed" <=> CacheHit(v)
          /\ dedup'.out.res = "suppressed" => dedup'.data[key] = dedup.data[key]
          /\ dedup'.out.res = "written" =>
                dedup'.data[key] = [set |-> TRUE, v |-> v.Value, at |-> dedup.now]
          /\ dedup'.out.res = "error" => ~dedup'.data[key].set \/ dedup'.data[key] = dedup.data[key]
          /\ \A k \in CacheKeys \ {key} : dedup'.data[k] = dedup.data[k]

\* C20: a PointValue reaching the dedup wrapper is suppressed (no sink
\* written, success returned) if and only if the cache holds, under the key
\* deviceID|pointName|register|serverID, a value equal to it within the
\* epsilon and stored at most TTL ago; a written value refreshes the cached
\* value and time, a suppressed one does not refresh the time, so the TTL runs
\* from the last written value.
SuppressedIffCacheHit == [][DedupStep]_vars

\* a value near the cached one but not the same was suppressed exactly TTL
\* after the cached value was written
SuppressedAtTTLSeen ==
    /\ dedup.out.res = "suppressed"
    /\ dedup.ttl = 2
    /\ LET e == dedup.data[CacheKey(dedup.out.v)] IN
          /\ dedup.now - e.at = dedup.ttl
          /\ e.v # dedup.out.v.Value

----------------------------------------------------------------------------
(* SpecDb: the database client -- pkg/modbusdb over internal/db, GORM on   *)
(* SQLite.  A table is the set of its rows, point_values the sequence of   *)
(* its rows in the order of their ids.  One caller makes one call at a     *)
(* time; db.out holds the call in progress and what it returns.            *)

MaxPointRows == 3

\* the rows the callers pass
ServerInputs ==
    {[ServerID |-> "s1", ServerName |-> "a"],
     [ServerID |-> "s1", ServerName |-> "b"],
     [ServerID |-> "s2", ServerName |-> "a"]}

DeviceInputs ==
    {[DeviceID |-> "d1", ServerID |-> "s1", Vendor |-> "a"],
     [DeviceID |-> "d1", ServerID |-> "s2", Vendor |-> "b"],
     [DeviceID |-> "d2", ServerID |-> "s1", Vendor |-> "a"]}

\* ID is 0 in every PointValue passed in: the table numbers the rows
PointInputs ==
    {[DeviceID |-> "d1", Name |-> "pressure", Value |-> 15, Timestamp |-> 1],
     [DeviceID |-> "d1", Name |-> "pressure", Value |-> 16, Timestamp |-> 2],
     [DeviceID |-> "d1", Name |-> "temperature", Value |-> 21, Timestamp |-> 2],
     [DeviceID |-> "d2", Name |-> "pressure", Value |-> 17, Timestamp |-> 2]}

PointBatches ==
    {<<[DeviceID |-> "d1", Name |-> "temperature", Value |-> 21, Timestamp |-> 2],
       [DeviceID |-> "d1", Name |-> "pressure", Value |-> 16, Timestamp |-> 2]>>,
     <<[DeviceID |-> "d1", Name |-> "pressure", Value |-> 16, Timestamp |-> 2],
       [DeviceID |-> "d1", Name |-> "pressure", Value |-> 16, Timestamp |-> 2]>>}

ServerFilters == {"", "s1", "s2"}

DeviceFilters == {"", "d1"}

HistoryLimits == {0, 2}

\* the order SQLite gives the text values that occur here (BINARY collation)
StringRank(s) ==
    CASE s = "d1" -> 1
      [] s = "d2" -> 2
      [] s = "pressure" -> 3
      [] s = "s1" -> 4
      [] s = "s2" -> 5
      [] s = "temperature" -> 6

\* db.Create: INSERT; the primary key refuses a second row of the same key
CreateUnchecked(table, key, row) == [err |-> FALSE, table |-> table \cup {row}]

Create(table, key, row) ==
    IF \E r \in table : r[key] = row[key]
    THEN [err |-> TRUE, table |-> table]
    ELSE [err |-> FALSE, table |-> table \cup {row}]

\* db.Save with a primary key: UPDATE every column WHERE key, and INSERT when
\* the UPDATE touched no row
SaveAsInsert(table, key, row) == table \cup {row}

Save(table, key, row) == {r \in table : r[key] # row[key]} \cup {row}

\* db.Where(key = id).Delete: DELETE FROM table WHERE key = id
Delete(table, key, id) == {r \in table : r[key] # id}

\* what the deletion of row `id` does to the rows that refer to it by `key`:
\* the models declare the references without OnDelete and openORM opens the
\* file without the foreign_keys pragma, so nothing
OnDelete(rows, key, id) == rows

\* db.First(&row, key = id)
First(table, key, id) ==
    IF \E r \in table : r[key] = id
    THEN [err |-> FALSE, rows |-> <<CHOOSE r \in table : r[key] = id>>]
    ELSE [err |-> TRUE, rows |-> <<>>]

\* the sequences a SELECT ... ORDER BY can return for the rows S: every row
\* once, in an order Leq accepts; rows Leq does not tell apart come in any order
Orderings(S, Leq(_, _)) ==
    LET n == Cardinality(S) IN
    {f \in [1..n -> S] :
        /\ \A i, j \in 1..n : i # j => f[i] # f[j]
        /\ \A i \in 1..n : i < n => Leq(f[i], f[i + 1])}

\* affected is RowsAffected of the statement, which a Save looks at
NoResult == [op |-> "none", arg |-> <<>>, err |-> FALSE, rows |-> <<>>, affected |-> 0]

Result(op, arg, err, rows) ==
    [op |-> op, arg |-> arg, err |-> err, rows |-> rows, affected |-> 0]

RowsAffected(table, key, row) == Cardinality({r \in table : r[key] = row[key]})

\* modbusdb.Open on a new file: migrateORM creates the empty tables
InitDb ==
    /\ db = [servers |-> {}, devices |-> {}, points |-> <<>>, out |-> NoResult]
    /\ ctxDone = FALSE
    /\ CsvAndProtoParked
    /\ FleetParked
    /\ CollectorParked
    /\ PoolParked
    /\ StorageParked
    /\ DedupParked
    /\ SimParked

outsideDb == <<tables, protoOnly, csvVars, ctxDone, fleetVars, collector, pool, storage, dedup, sim>>

Idle == db.out.op = "none"

CreateServer(s) ==
    /\ Idle
    /\ LET r == Create(db.servers, "ServerID", s) IN
          db' = [db EXCEPT !.servers = r.table,
                           !.out = Result("CreateServer", <<s>>, r.err, <<>>)]
    /\ UNCHANGED outsideDb

GetServer(id) ==
    /\ Idle
    /\ LET r == First(db.servers, "ServerID", id) IN
          db' = [db EXCEPT !.out = Result("GetServer", <<id>>, r.err, r.rows)]
    /\ UNCHANGED outsideDb

\* Order("server_id").Find
ListServers ==
    /\ Idle
    /\ \E f \in Orderings(db.servers,
                          LAMBDA a, b : StringRank(a.ServerID) <= StringRank(b.ServerID)) :
          db' = [db EXCEPT !.out = Result("ListServers", <<>>, FALSE, f)]
    /\ UNCHANGED outsideDb

UpdateServer(s) ==
    /\ Idle
    /\ db' = [db EXCEPT !.servers = Save(db.servers, "ServerID", s),
                        !.out = [Result("UpdateServer", <<s>>, FALSE, <<>>) EXCEPT
                                    !.affected = RowsAffected(db.servers, "ServerID", s)]]
    /\ UNCHANGED outsideDb

\* SaveServer delegates to UpdateServer
SaveServer(s) ==
    /\ Idle
    /\ db' = [db EXCEPT !.servers = Save(db.servers, "ServerID", s),
                        !.out = [Result("SaveServer", <<s>>, FALSE, <<>>) EXCEPT
                                    !.affected = RowsAffected(db.servers, "ServerID", s)]]
    /\ UNCHANGED outsideDb

DeleteServer(id) ==
    /\ Idle
    /\ db' = [db EXCEPT !.servers = Delete(db.servers, "ServerID", id),
                        !.devices = OnDelete(db.devices, "ServerID", id),
                        !.out = Result("DeleteServer", <<id>>, FALSE, <<>>)]
    /\ UNCHANGED outsideDb

CreateDevice(d) ==
    /\ Idle
    /\ LET r == Create(db.devices, "DeviceID", d) IN
          db' = [db EXCEPT !.devices = r.table,
                           !.out = Result("CreateDevice", <<d>>, r.err, <<>>)]
    /\ UNCHANGED outsideDb

GetDevice(id) ==
    /\ Idle
    /\ LET r == First(db.devices, "DeviceID", id) IN
          db' = [db EXCEPT !.out = Result("GetDevice", <<id>>, r.err, r.rows)]
    /\ UNCHANGED outsideDb

\* Where("server_id = ?") when serverID is not empty, Order("device_id").Find
ListDevices(serverID) ==
    /\ Idle
    /\ \E f \in Orderings({d \in db.devices : serverID = "" \/ d.ServerID = serverID},
                          LAMBDA a, b : StringRank(a.DeviceID) <= StringRank(b.DeviceID)) :
          db' = [db EXCEPT !.out = Result("ListDevices", <<serverID>>, FALSE, f)]
    /\ UNCHANGED outsideDb

UpdateDevice(d) ==
    /\ Idle
    /\ db' = [db EXCEPT !.devices = Save(db.devices, "DeviceID", d),
                        !.out = [Result("UpdateDevice", <<d>>, FALSE, <<>>) EXCEPT
                                    !.affected = RowsAffected(db.devices, "DeviceID", d)]]
    /\ UNCHANGED outsideDb

\* SaveDevice delegates to UpdateDevice
SaveDevice(d) ==
    /\ Idle
    /\ db' = [db EXCEPT !.devices = Save(db.devices, "DeviceID", d),
                        !.out = [Result("SaveDevice", <<d>>, FALSE, <<>>) EXCEPT
                                    !.affected = RowsAffected(db.devices, "DeviceID", d)]]
    /\ UNCHANGED outsideDb

\* DELETE FROM devices WHERE device_id = id
DeleteDevice(id) ==
    /\ Idle
    /\ db' = [db EXCEPT !.devices = Delete(db.devices, "DeviceID", id),
                        !.points = OnDelete(db.points, "DeviceID", id),
                        !.out = Result("DeleteDevice", <<id>>, FALSE, <<>>)]
    /\ UNCHANGED outsideDb

\* INSERT INTO point_values with ID 0: the row gets the next id
insertPointValue(points, p) ==
    Append(points, [ID |-> Len(points) + 1, DeviceID |-> p.DeviceID, Name |-> p.Name,
                    Value |-> p.Value, Timestamp |-> p.Timestamp])

SavePointValue(p) ==
    /\ Idle
    /\ Len(db.points) < MaxPointRows
    /\ db' = [db EXCEPT !.points = insertPointValue(db.points, p),
                        !.out = Result("SavePointValue", <<p>>, FALSE, <<>>)]
    /\ UNCHANGED outsideDb

\* CreateInBatches: the rows in the order of the slice
SavePointValuesBatch(ps) ==
    /\ Idle
    /\ Len(db.points) + Len(ps) <= MaxPointRows
    /\ db' = [db EXCEPT !.points = insertPointValue(insertPointValue(db.points, ps[1]), ps[2]),
                        !.out = Result("SavePointValuesBatch", ps, FALSE, <<>>)]
    /\ UNCHANGED outsideDb

\* point_values as p JOIN devices d ON d.device_id = p.device_id
JoinDevices(points, devices) ==
    {j \in {[p |-> points[i], d |-> d] : i \in 1..Len(points), d \in devices} :
        j.d.DeviceID = j.p.DeviceID}

SameTriple(a, b) ==
    /\ a.d.ServerID = b.d.ServerID
    /\ a.p.DeviceID = b.p.DeviceID
    /\ a.p.Name = b.p.Name

\* the subquery: the joined rows the filters pass, one group for each
\* (server_id, device_id, name), with MAX(p.timestamp) as ts
LatestGroups(points, devices, serverID, deviceID) ==
    LET J == {j \in JoinDevices(points, devices) :
                 /\ serverID = "" \/ j.d.ServerID = serverID
                 /\ deviceID = "" \/ j.p.DeviceID = deviceID}
    IN {[server_id |-> j.d.ServerID, device_id |-> j.p.DeviceID, name |-> j.p.Name,
         ts |-> CHOOSE t \in {k.p.Timestamp : k \in {x \in J : SameTriple(x, j)}} :
                    \A k \in {x \in J : SameTriple(x, j)} : k.p.Timestamp <= t] : j \in J}

\* the joined rows the outer query keeps: JOIN (sub) as l ON l.server_id =
\* d.server_id AND l.device_id = p.device_id AND l.name = p.name AND
\* l.ts = p.timestamp
LatestRows(points, devices, serverID, deviceID) ==
    LET L == LatestGroups(points, devices, serverID, deviceID) IN
    {j \in JoinDevices(points, devices) :
        \E l \in L : /\ l.server_id = j.d.ServerID
                     /\ l.device_id = j.p.DeviceID
                     /\ l.name = j.p.Name
                     /\ l.ts = j.p.Timestamp}

\* the columns of PointLatest
PointLatest(j) ==
    [ServerID |-> j.d.ServerID, DeviceID |-> j.p.DeviceID, Name |-> j.p.Name,
     Value |-> j.p.Value, Timestamp |-> j.p.Timestamp]

\* LatestPointsORM: Order("p.name").Scan
LatestPoints(serverID, deviceID) ==
    /\ Idle
    /\ \E f \in Orderings(LatestRows(db.points, db.devices, serverID, deviceID),
                          LAMBDA a, b : StringRank(a.p.Name) <= StringRank(b.p.Name)) :
          db' = [db EXCEPT !.out = Result("LatestPoints", <<serverID, deviceID>>, FALSE,
                                          [i \in DOMAIN f |-> PointLatest(f[i])])]
    /\ UNCHANGED outsideDb

\* q.Limit(limit) when limit > 0
LimitIgnored(rows, limit) == rows

Limit(rows, limit) ==
    IF limit > 0 /\ limit < Len(rows) THEN SubSeq(rows, 1, limit) ELSE rows

\* Order("timestamp DESC, name")
HistoryOrder(a, b) ==
    \/ a.Timestamp > b.Timestamp
    \/ a.Timestamp = b.Timestamp /\ StringRank(a.Name) <= StringRank(b.Name)

\* ListDevicePointValues: Where("device_id = ?"), the order, the limit
DeviceHistory(deviceID, limit) ==
    /\ Idle
    /\ \E f \in Orderings({p \in {db.points[i] : i \in 1..Len(db.points)} :
                              p.DeviceID = deviceID},
                          HistoryOrder) :
          db' = [db EXCEPT !.out = Result("DeviceHistory", <<deviceID, limit>>, FALSE,
                                          Limit(f, limit))]
    /\ UNCHANGED outsideDb

\* the call returns to its caller
Returns ==
    /\ ~Idle
    /\ db' = [db EXCEPT !.out = NoResult]
    /\ UNCHANGED outsideDb

NextDb ==
    \/ \E s \in ServerInputs : CreateServer(s) \/ UpdateServer(s) \/ SaveServer(s)
    \/ \E id \in {"s1", "s2"} : GetServer(id) \/ DeleteServer(id)
    \/ ListServers
    \/ \E d \in DeviceInputs : CreateDevice(d) \/ UpdateDevice(d) \/ SaveDevice(d)
    \/ \E id \in {"d1", "d2"} : GetDevice(id) \/ DeleteDevice(id)
    \/ \E sf \in ServerFilters : ListDevices(sf)
    \/ \E p \in PointInputs : SavePointValue(p)
    \/ \E ps \in PointBatches : SavePointValuesBatch(ps)
    \/ \E sf \in ServerFilters, df \in DeviceFilters : LatestPoints(sf, df)
    \/ \E id \in {"d1", "d2"}, limit \in HistoryLimits : DeviceHistory(id, limit)
    \/ Returns

SpecDb == InitDb /\ [][NextDb]_vars

----------------------------------------------------------------------------
(* Claims about the database client *)

\* the stored values with the server their device row names, as the spec
\* speaks of them: the value, and the (server_id, device_id, name) it is of
StoredTriples(serverID, deviceID) ==
    {<<d.ServerID, db.points[i].DeviceID, db.points[i].Name>> :
        <<i, d>> \in {x \in (1..Len(db.points)) \X db.devices :
                         /\ x[2].DeviceID = db.points[x[1]].DeviceID
                         /\ serverID = "" \/ x[2].ServerID = serverID
                         /\ deviceID = "" \/ x[2].DeviceID = deviceID}}

TripleOf(row) == <<row.ServerID, row.DeviceID, row.Name>>

LatestStamp(t) ==
    LET S == {db.points[i].Timestamp :
                 i \in {k \in 1..Len(db.points) :
                           /\ db.points[k].DeviceID = t[2]
                           /\ db.points[k].Name = t[3]}}
    IN CHOOSE m \in S : \A x \in S : x <= m

(* C21: LatestPoints returns exactly one row for each (server_id,          *)
(* device_id, name) triple that has a stored value passing the filters,    *)
(* no row of any other triple, and the row of a triple carries the         *)
(* triple's maximum timestamp -- also when several stored rows of the      *)
(* triple share that timestamp.                                            *)
LatestOneRowPerTriple ==
    db.out.op = "LatestPoints" =>
        LET rows == db.out.rows
            T == StoredTriples(db.out.arg[1], db.out.arg[2])
        IN /\ \A i \in DOMAIN rows : TripleOf(rows[i]) \in T
           /\ \A t \in T :
                 /\ Cardinality({i \in DOMAIN rows : TripleOf(rows[i]) = t}) = 1
                 /\ \A i \in DOMAIN rows :
                       TripleOf(rows[i]) = t => rows[i].Timestamp = LatestStamp(t)

\* rows a and b of a history are in the order the spec gives: timestamp
\* descending, then name ascending
InHistoryOrder(a, b) ==
    \/ a.Timestamp > b.Timestamp
    \/ a.Timestamp = b.Timestamp /\ StringRank(a.Name) <= StringRank(b.Name)

(* C22: DeviceHistory(device, 0) returns exactly the rows saved for the    *)
(* device, each once and none of another device, ordered by timestamp      *)
(* descending then name ascending; DeviceHistory(device, L) with L > 0     *)
(* returns the first min(L, N) rows of that order.                         *)
HistoryOrderedAndLimited ==
    db.out.op = "DeviceHistory" =>
        LET rows == db.out.rows
            L == db.out.arg[2]
            Own == {db.points[i] : i \in {k \in 1..Len(db.points) :
                                            db.points[k].DeviceID = db.out.arg[1]}}
            N == Cardinality(Own)
        IN /\ Len(rows) = IF L > 0 /\ L < N THEN L ELSE N
           /\ \A i \in DOMAIN rows : rows[i] \in Own
           /\ \A i, j \in DOMAIN rows : i < j =>
                 /\ rows[i] # rows[j]
                 /\ InHistoryOrder(rows[i], rows[j])
           /\ \A p \in Own : \A i \in DOMAIN rows :
                 (\A j \in DOMAIN rows : rows[j] # p) => InHistoryOrder(rows[i], p)

\* a limited history: three rows of the device stored, the two of the later
\* timestamp returned in the order of their names
LimitedHistorySeen ==
    /\ db.out.op = "DeviceHistory"
    /\ db.out.arg[2] = 2
    /\ Len(db.points) = 3
    /\ \A i \in 1..3 : db.points[i].DeviceID = db.out.arg[1]
    /\ Len(db.out.rows) = 2
    /\ db.out.rows[1].Timestamp = db.out.rows[2].Timestamp
    /\ db.out.rows[1].Name = "pressure"
    /\ db.out.rows[2].Name = "temperature"
    /\ \E i \in 1..3 : db.points[i].Timestamp < db.out.rows[2].Timestamp

KeysUnique ==
    /\ \A r1, r2 \in db.servers : r1.ServerID = r2.ServerID => r1 = r2
    /\ \A r1, r2 \in db.devices : r1.DeviceID = r2.DeviceID => r1 = r2
    /\ db.out.op = "ListServers" =>
          /\ \A i, j \in DOMAIN db.out.rows :
                i # j => db.out.rows[i].ServerID # db.out.rows[j].ServerID
          /\ {db.out.rows[i] : i \in DOMAIN db.out.rows} = db.servers
    /\ db.out.op = "ListDevices" /\ db.out.arg[1] = "" =>
          /\ \A i, j \in DOMAIN db.out.rows :
                i # j => db.out.rows[i].DeviceID # db.out.rows[j].DeviceID
          /\ {db.out.rows[i] : i \in DOMAIN db.out.rows} = db.devices
    /\ db.out.op = "GetServer" =>
          IF \E r \in db.servers : r.ServerID = db.out.arg[1]
          THEN /\ ~db.out.err
               /\ db.out.rows[1] \in db.servers
               /\ db.out.rows[1].ServerID = db.out.arg[1]
          ELSE db.out.err
    /\ db.out.op = "GetDevice" =>
          IF \E r \in db.devices : r.DeviceID = db.out.arg[1]
          THEN /\ ~db.out.err
               /\ db.out.rows[1] \in db.devices
               /\ db.out.rows[1].DeviceID = db.out.arg[1]
          ELSE db.out.err

\* the table after row was updated or saved: row is the one row of its key,
\* the rows of the other keys are as before
Replaced(before, after, key, row) ==
    /\ row \in after
    /\ \A r \in after : r[key] = row[key] => r = row
    /\ {r \in after : r[key] # row[key]} = {r \in before : r[key] # row[key]}
    /\ (\E r \in before : r[key] = row[key]) => Cardinality(after) = Cardinality(before)

CrudStep ==
    /\ db'.out.op \in {"UpdateServer", "SaveServer"} =>
          Replaced(db.servers, db'.servers, "ServerID", db'.out.arg[1])
    /\ db'.out.op \in {"UpdateDevice", "SaveDevice"} =>
          Replaced(db.devices, db'.devices, "DeviceID", db'.out.arg[1])
    /\ db'.out.op = "DeleteServer" =>
          \A r \in db'.servers : r.ServerID # db'.out.arg[1]
    /\ db'.out.op = "DeleteDevice" =>
          \A r \in db'.devices : r.DeviceID # db'.out.arg[1]

(* C23: whatever CreateServer, UpdateServer, SaveServer and DeleteServer   *)
(* calls were made, the servers table and ListServers hold at most one row *)
(* for a server_id; UpdateServer and SaveServer of an existing server_id   *)
(* replace the row's fields without adding a row, and GetServer and        *)
(* ListServers return the row the table holds; after DeleteServer the      *)
(* server_id is absent.  The same for devices and device_id.               *)
OneRowForEachKey == []KeysUnique /\ [][CrudStep]_vars

\* SaveServer has replaced the name of s1, beside the row of s2
ServerReplacedSeen ==
    /\ db.out.op = "SaveServer"
    /\ db.out.affected = 1
    /\ db.out.arg[1] = [ServerID |-> "s1", ServerName |-> "b"]
    /\ db.servers = {[ServerID |-> "s1", ServerName |-> "b"],
                     [ServerID |-> "s2", ServerName |-> "a"]}

CascadeStep ==
    /\ db'.out.op = "DeleteServer" =>
          \A d \in db'.devices : d.ServerID # db'.out.arg[1]
    /\ db'.out.op = "DeleteDevice" =>
          \A i \in 1..Len(db'.points) : db'.points[i].DeviceID # db'.out.arg[1]

(* C24: deleting a server deletes every device row that names it, and      *)
(* deleting a device deletes every point-value row that names it, so that  *)
(* a deletion leaves no row that refers to the deleted one.                *)
DeletesCascade == [][CascadeStep]_vars

----------------------------------------------------------------------------
(* Claims about the snapshot and the conversions of the CSV driver *)

\* the register tables as Snapshot finds them, read without the driver's
\* operators
WordAt(regs, a) == IF a \in DOMAIN regs THEN regs[a] ELSE 0

SnapshotStep ==
    (snap = NoSnapshot /\ snap' # NoSnapshot) =>
        /\ snap'.RegisterType = point.regType
        /\ point.regType = "holding" =>
              /\ snap'.ValueUint16 = <<WordAt(HoldingRegisters, point.address)>>
              /\ snap'.ValueBool = <<>>
        /\ point.regType = "input" =>
              /\ snap'.ValueUint16 = <<WordAt(InputRegisters, point.address)>>
              /\ snap'.ValueBool = <<>>
        /\ point.regType = "coil" =>
              /\ snap'.ValueBool = <<point.address \in Coils>>
              /\ snap'.ValueUint16 = <<>>
        /\ point.regType = "discrete" =>
              /\ snap'.ValueBool = <<point.address \in DiscreteInputs>>
              /\ snap'.ValueUint16 = <<>>

(* C26: in a snapshot a configured point has exactly one of valueUint16    *)
(* and valueBool populated -- valueUint16 for a holding or input point,    *)
(* valueBool for a coil or discrete point -- and the populated value is    *)
(* the content the register has when it is read.                           *)
SnapshotShowsRegister == [][SnapshotStep]_vars

\* a snapshot of the input register that holds -2 as a 16-bit word
SnapshotOfNegativeSeen ==
    /\ snap # NoSnapshot
    /\ snap.RegisterType = "input"
    /\ snap.ValueUint16 = <<65534>>
    /\ snap.ValueBool = <<>>
    /\ WordAt(InputRegisters, 65535) = 65534

\* the driver has applied at least one row
RowsApplied == Len(dataRows) >= 1 /\ csvState \in {"running", "stopped"}

\* raw*scale + offset of the k-th application, in halves; scale defaults to 1
ScaledAt(k) ==
    (dataRows[applied[k] + 1] * (IF point.scale = 0 THEN 1 ELSE point.scale))
        + (2 * point.offset)

\* r is the integer nearest to h/2, a tie going away from zero
IsNearest(r, h) ==
    \/ 2 * r = h
    \/ (h % 2) = 1 /\ 2 * r = h + (IF h > 0 THEN 1 ELSE -1)

Nearest(h) == CHOOSE r \in {h \div 2, (h \div 2) + 1} : IsNearest(r, h)

(* C27: for a numeric point the driver rounds raw*scale+offset to the      *)
(* nearest integer; a uint16 value outside [0, 65535] or an int16 value    *)
(* outside [-32768, 32767] is rejected and the register keeps its previous *)
(* content; an accepted value v is stored as the 16-bit word v mod 65536,  *)
(* the two's complement of a negative int16.                               *)
NumericRoundedAndRanged ==
    (RowsApplied /\ point.regType \in {"holding", "input"}
                 /\ point.dataType \in {"", "uint16", "int16"}) =>
        \A k \in 1..Len(shown) :
            LET r == Nearest(ScaledAt(k))
                previous == IF k = 1 THEN 0 ELSE shown[k - 1]
                accepted == IF point.dataType = "int16"
                            THEN r >= -32768 /\ r <= 32767
                            ELSE r >= 0 /\ r <= 65535
            IN shown[k] = IF accepted THEN r % 65536 ELSE previous

\* -1.5 * 2000 stored as the word of -3000, then 20 * 2000 rejected
RejectedAfterNegativeSeen ==
    /\ point.dataType = "int16"
    /\ point.scale = 2000
    /\ dataRows = <<-3, 40>>
    /\ shown = <<62536, 62536>>
    /\ WordAt(InputRegisters, 100) = 62536

\* the IEEE 754 single-precision patterns of 1001.0, 2001.0, 3001.0 and
\* -149.0 (0x447A4000, 0x44FA2000, 0x453B9000, 0xC3150000), high word first
Float32Pattern(h) ==
    CASE h = 2002 -> <<17530, 16384>>
      [] h = 4002 -> <<17658, 8192>>
      [] h = 6002 -> <<17723, 36864>>
      [] h = -298 -> <<49941, 0>>

(* C28: a float32 point is written as two registers, the high 16 bits of   *)
(* the value's 32-bit pattern at address and the low 16 bits at address+1; *)
(* a float32 point at address 65535 is rejected, and neither register      *)
(* 65535 nor register 0 is modified.                                       *)
Float32InTwoRegisters ==
    (RowsApplied /\ point.regType = "input" /\ point.dataType = "float32") =>
        IF point.address = 65535
        THEN /\ WordAt(InputRegisters, 65535) = 0
             /\ WordAt(InputRegisters, 0) = 0
        ELSE LET words == Float32Pattern(ScaledAt(Len(applied))) IN
             /\ WordAt(InputRegisters, point.address) = words[1]
             /\ WordAt(InputRegisters, point.address + 1) = words[2]

\* 3001.0 in the registers 100 and 101
Float32WordsSeen ==
    /\ point.dataType = "float32"
    /\ point.address = 100
    /\ WordAt(InputRegisters, 100) = 17723
    /\ WordAt(InputRegisters, 101) = 36864

(* C30: for a coil or discrete-input point the driver writes true for any  *)
(* non-zero CSV value, positive or negative, and false for zero.           *)
NonZeroCsvValueIsTrue ==
    (RowsApplied /\ point.regType \in {"coil", "discrete"}) =>
        \A k \in 1..Len(shown) :
            shown[k] = IF dataRows[applied[k] + 1] # 0 THEN 1 ELSE 0

----------------------------------------------------------------------------
(* Write-single-coil on the RTU slaves *)

(* C29: a write-single-coil request (0x05) with value 0xFF00 sets the coil *)
(* to true and one with value 0x0000 sets it to false, and the request is  *)
(* echoed; any other value is answered with exception IllegalDataValue     *)
(* (0x03) and leaves the coil unchanged.                                   *)
WriteSingleCoilAnswered ==
    [][(impl # "tcp" /\ Served(last') /\ Len(RequestPDU(last')) = 5
                     /\ RequestPDU(last')[1] = 5
                     /\ PduStart(RequestPDU(last')) < TableSize)
          => LET pdu == RequestPDU(last')
                 addr == PduStart(pdu)
                 value == pdu[4] * 256 + pdu[5]
                 resp == ResponsePDU(last')
             IN  CASE value = 65280 -> addr \in Coils' /\ resp = pdu
                   [] value = 0 -> addr \notin Coils' /\ resp = pdu
                   [] OTHER -> resp = <<133, 3>> /\ UNCHANGED Coils]_vars

----------------------------------------------------------------------------
(* The CRC of the RTU frames *)

\* the CRC register as the set of its bits that are 1
BitsOf(n) == {k \in 0..15 : ((n \div (2^k)) % 2) = 1}

SymDiff(A, B) == (A \ B) \cup (B \ A)

\* one bit of the register: shift right, and XOR 0xA001 = bits 15, 13, 0
\* when the bit shifted out is 1
RefShift(S) ==
    LET shifted == {k - 1 : k \in S \ {0}}
    IN  IF 0 \in S THEN SymDiff(shifted, {15, 13, 0}) ELSE shifted

RefByte(S, b) ==
    RefShift(RefShift(RefShift(RefShift(
        RefShift(RefShift(RefShift(RefShift(SymDiff(S, BitsOf(b))))))))))

\* the register after the bytes lo..hi of data, starting from S
RefCrcBits(data) ==
    LET over[t \in (SUBSET (0..15)) \X Nat \X Nat] ==
            IF t[2] > t[3] THEN t[1]
            ELSE IF t[2] = t[3] THEN RefByte(t[1], data[t[2]])
            ELSE LET mid == (t[2] + t[3]) \div 2
                 IN  over[<<over[<<t[1], t[2], mid>>], mid + 1, t[3]>>]
    IN  over[<<0..15, 1, Len(data)>>]

\* C31: the CRC-16 function (seed 0xFFFF, shift right, XOR 0xA001 when the
\* bit shifted out is 1) over 01 03 00 00 00 0A is 0xCDC5, and every RTU
\* response frame ends with the function's value over address + PDU, low
\* byte first.
CrcEndsEveryRtuResponse ==
    /\ crc16Modbus(<<1, 3, 0, 0, 0, 10>>) = 52677
    /\ (impl # "tcp" /\ last.kind = "request" /\ Len(last.resp) > 0) =>
          LET n == Len(last.resp)
              body == SubSeq(last.resp, 1, n - 2)
              c == RefCrcBits(body)
          IN  /\ n >= 3
              /\ BitsOf(crc16Modbus(body)) = c
              /\ BitsOf(last.resp[n - 1]) = {k \in c : k < 8}
              /\ BitsOf(last.resp[n]) = {k - 8 : k \in {j \in c : j >= 8}}

\* the request 01 03 00 00 00 0A C5 CD was accepted and answered with ten
\* registers
CrcVectorRequestSeen ==
    /\ impl # "tcp"
    /\ last.kind = "request"
    /\ last.req = <<1, 3, 0, 0, 0, 10, 197, 205>>
    /\ Len(last.resp) = 25
    /\ last.resp[2] = 3

----------------------------------------------------------------------------
(* Cancellation and the retry waits *)

(* C32: every retry backoff observes cancellation: once the context is     *)
(* cancelled, a slave in the one-second wait between two bind attempts     *)
(* leaves the wait without making another bind attempt (and so do the      *)
(* poller's connect-retry wait and its reconnect wait).                    *)
BackoffObservesCancel ==
    [][\A i \in ServerIDs :
          (ctxDone /\ slave[i].pc = "sleep") => slave'[i].pc # "listen"]_vars

----------------------------------------------------------------------------
(* The storage queue at shutdown *)

(* C33: no value is sent on the storage queue after Storage.Close has      *)
(* closed it, for every interleaving of cancellation, expiry of the grace  *)
(* period and pollers that are still inside a poll cycle.                  *)
NoSendOnClosedQueue ==
    [][pool.queueClosed => pool'.mgr # "panicked"]_vars

----------------------------------------------------------------------------
(* SpecWords: a float32 point of a slave of the fleet, written by the CSV   *)
(* driver while a Modbus TCP client reads its two registers.  The driver    *)
(* takes the server's lock once for each SetInputRegister/SetHoldingRegister *)
(* call of setRegisterFloat32, the connection worker takes the read lock    *)
(* for the whole of readRegisters: each lock section is one step.           *)
(* csvState is "word" between the two calls of setRegisterFloat32.          *)

\* the float32 points setRegisterFloat32 accepts
Float32Points == {p \in Points : p.dataType = "float32" /\ p.address # 65535}

InitWords ==
    /\ driver = "manager"
    /\ point \in Float32Points
    /\ dataRows \in {rows \in RowLists : Len(rows) >= 1}
    /\ rowIndex = 0
    /\ ticks = 0
    /\ applied = <<>>
    /\ shown = <<>>
    /\ csvState = "new"
    /\ snap = NoSnapshot
    /\ ctxDone = FALSE
    /\ Coils = {}
    /\ DiscreteInputs = {}
    /\ HoldingRegisters = EmptyRegs
    /\ InputRegisters = EmptyRegs
    /\ ProtoParked
    /\ FleetParked
    /\ AcqParked

\* setRegisterWord on the server's tables
SetWord(address, word) ==
    LET t == setRegisterWord(Tabs, point.regType, address, word) IN
    /\ HoldingRegisters' = t.holding
    /\ InputRegisters' = t.input
    /\ UNCHANGED <<Coils, DiscreteInputs>>

\* setRegisterFloat32, first call: setRegisterWord(server, regType, address, hi)
\* for the row the driver applies -- row 0 at the start, the next row on a tick
WriteHighWord ==
    /\ csvState \in {"new", "running"}
    /\ csvState = "running" => ticks < MaxTicks
    /\ rowIndex' = IF csvState = "new" THEN 0
                   ELSE NextIndex(rowIndex, Len(dataRows))
    /\ ticks' = IF csvState = "new" THEN ticks ELSE ticks + 1
    /\ SetWord(point.address,
               Float32bits(Scaled(point, At(dataRows, rowIndex'))).hi)
    /\ applied' = Append(applied, rowIndex')
    /\ csvState' = "word"
    /\ UNCHANGED <<driver, point, dataRows, shown, snap, ctxDone, protoOnly,
                   fleetVars, acqVars>>

\* setRegisterFloat32, second call: setRegisterWord(server, regType,
\* address+1, lo)
WriteLowWord ==
    /\ csvState = "word"
    /\ SetWord(point.address + 1,
               Float32bits(Scaled(point, At(dataRows, rowIndex))).lo)
    /\ shown' = Append(shown, ViewPoint(Tabs, point))
    /\ csvState' = "running"
    /\ UNCHANGED <<driver, point, dataRows, rowIndex, ticks, applied, snap,
                   ctxDone, protoOnly, fleetVars, acqVars>>

\* the function code that reads the point's table
ReadFunction(p) == IF p.regType = "holding" THEN 3 ELSE 4

\* a client's read of the point's two registers, answered by handleConnection
ReadWords ==
    /\ nops < MaxOps
    /\ LET pdu == ReadPDU(ReadFunction(point), point.address, 2)
           header == MbapHeader(<<4660, 0, 1>>, Len(pdu) + 1)
       IN  last' = Event("request", header \o pdu, handleConnection(header, pdu))
    /\ nops' = nops + 1
    /\ UNCHANGED <<impl, tables, handler, csvVars, ctxDone, fleetVars, acqVars>>

NextWords ==
    \/ WriteHighWord
    \/ WriteLowWord
    \/ ReadWords

SpecWords == InitWords /\ [][NextWords]_vars

\* the two words of the k-th value the driver wrote or is writing; before
\* the first the registers hold zero
WordsOfValue(k) == IF k = 0 THEN <<0, 0>> ELSE Float32Pattern(ScaledAt(k))

\* the two registers in a read response: MBAP header (7), function, byte
\* count, then the words, high byte first
WordsRead(resp) == <<resp[10] * 256 + resp[11], resp[12] * 256 + resp[13]>>

(* C34: a two-register read of a float32 point that runs concurrently with *)
(* the CSV driver updating the point returns both words of the old value   *)
(* or both words of the new value, never the high word of one and the low  *)
(* word of the other.                                                      *)
ReadSeesOneValue ==
    [][nops' = nops + 1 =>
          /\ Len(last'.resp) = 13
          /\ \E k \in {Len(applied), Len(applied) - 1} :
                k >= 0 /\ WordsRead(last'.resp) = WordsOfValue(k)]_vars

----------------------------------------------------------------------------
(* Worker slots under a fair scheduler *)

\* the Go scheduler runs every goroutine that can take a step: a poller at
\* the select takes a free slot, a connect to a reachable device succeeds,
\* the consumer takes what is queued; the cancellation is left to the user
SpecPoolFair ==
    /\ SpecPool
    /\ \A i \in PollerIDs : WF_vars(AcquireWorker(i))
    /\ \A i \in PollerIDs : WF_vars(PollerConnect(i))
    /\ WF_vars(ConsumerWrite)

(* C35: when more enabled devices than max_workers are configured and all  *)
(* are reachable, every device is eventually polled while the collector    *)
(* runs: a poller waiting for a worker slot eventually gets one without    *)
(* cancellation.                                                           *)
WaitingPollerGetsSlot ==
    \A i \in PollerIDs : <>(ctxDone \/ pool.poller[i].slot)

----------------------------------------------------------------------------
(* SpecStart: Manager.Run starting a fleet of one server more than the      *)
(* start semaphore holds, all enabled, with no CSV file, every bind         *)
(* succeeding, while the context is not cancelled.  The servers are alike:  *)
(* the goroutine that wins a race is named by the lowest ID.                *)

FleetIDs == 1..(StartSemCap + 1)

InitStart ==
    /\ slave = [i \in FleetIDs |-> NewSlave([enabled |-> TRUE, retryCount |-> 0])]
    /\ sem = 0
    /\ servers = {}
    /\ runPc = "new"
    /\ elapsed = 0
    /\ ctxDone = FALSE
    /\ CsvAndProtoParked
    /\ AcqParked

\* i is the lowest of the goroutines that stand at pc
LowestAt(i, pc) == \A j \in FleetIDs : j < i => slave[j].pc # pc

\* select: case sem <- struct{}{}
StartAcquire == \E i \in FleetIDs : LowestAt(i, "acquire") /\ AcquireSlot(i)

\* server.Listen(addr) succeeds, the server is registered
StartListen ==
    \E i \in FleetIDs :
        LowestAt(i, "listen") /\ ListenOk(i) /\ slave'[i].drv = "none"

NextStart ==
    \/ Run
    \/ StartAcquire
    \/ StartListen

SpecStart == InitStart /\ [][NextStart]_vars

\* the Go scheduler runs every goroutine that can take a step
SpecStartFair ==
    /\ SpecStart
    /\ WF_vars(Run)
    /\ WF_vars(StartAcquire)
    /\ WF_vars(StartListen)

(* C36: when more than 16 enabled TCP servers are configured and every     *)
(* bind succeeds, every one of them eventually listens and appears in      *)
(* Snapshot() while the manager runs: a server waiting for the start       *)
(* semaphore eventually acquires it without cancellation.                  *)
EveryServerListens ==
    <>(ctxDone \/ \A i \in FleetIDs : i \in servers /\ slave[i].listening)

----------------------------------------------------------------------------
(* Write-multiple-coils with a short payload *)

\* ceil(qty / 8): the payload bytes that qty coils take
CoilBytes(qty) == (qty + 7) \div 8

(* C37: a write-multiple-coils request (0x0F) with a valid CRC whose       *)
(* byteCount is smaller than ceil(qty/8) is answered with an exception,    *)
(* changes no coil and never makes the handler read beyond the received    *)
(* payload; the stream handler keeps running.                              *)
ShortCoilPayloadIsRefused ==
    [][(impl # "tcp" /\ nops' = nops + 1 /\ Served(last')
           /\ Len(RequestPDU(last')) >= 6
           /\ RequestPDU(last')[1] = 15
           /\ RequestPDU(last')[6] = Len(RequestPDU(last')) - 6
           /\ RequestPDU(last')[6] < CoilBytes(PduQty(RequestPDU(last'))))
          => /\ Len(ResponsePDU(last')) = 2
             /\ ResponsePDU(last')[1] = 143
             /\ UNCHANGED Coils
             /\ handler' = "running"]_vars

----------------------------------------------------------------------------
(* The dedup cache and values the storage dropped *)

\* what the cache of d holds under key: the value and its time, nothing when
\* there is no entry or the entry has outlived the TTL
Held(d, key) ==
    IF d.data[key].set /\ d.now - d.data[key].at <= d.ttl
    THEN <<d.data[key].v, d.data[key].at>>
    ELSE <<>>

\* a value equal to x, within 1e-9 * max(1, |x|, |y|), is held under key
HeldEqual(d, key, x) ==
    /\ Held(d, key) # <<>>
    /\ LET y == Held(d, key)[1]
           diff == IF x >= y THEN x - y ELSE y - x
           big == IF x >= y THEN x ELSE y
       IN  diff <= (IF big > 1000000000 THEN big \div 1000000000 ELSE 1)

DroppedStep ==
    (dedup'.now = dedup.now /\ dedup'.out.res = "error") =>
        LET v == dedup'.out.v
            key == <<v.DeviceID, v.PointName, v.Register, v.ServerID>>
        IN  /\ Held(dedup', key) = Held(dedup, key)
            /\ ~HeldEqual(dedup', key, v.Value)
            /\ \A k \in CacheKeys \ {key} : dedup'.data[k] = dedup.data[k]

(* C38: the dedup cache is updated only with values that the storage       *)
(* queue accepted: when Storage.Handle drops a value, what the cache holds *)
(* for its key is unchanged, so the next equal value for that key is not   *)
(* suppressed.                                                             *)
DroppedValueNotCached == [][DroppedStep]_vars

\* a value was dropped while the cache held another value under its key
DroppedBesideCachedSeen ==
    /\ dedup.out.res = "error"
    /\ LET key == CacheKey(dedup.out.v) IN
          /\ Held(dedup, key) # <<>>
          /\ Held(dedup, key)[1] = 2000000000
          /\ dedup.out.v.Value = 1000000000

----------------------------------------------------------------------------
(* SpecSeed: Manager.initDatabaseFromConfig on the SQL database of the      *)
(* storage (internal/db: servers and devices keyed by server_id and         *)
(* device_id).  db.servers and db.devices are the committed tables, db.tx   *)
(* the tables as the open transaction sees them, db.todo the statements     *)
(* the loops have still to execute, db.results what the calls so far        *)
(* returned.                                                                *)

\* calls of initDatabaseFromConfig in one run
MaxSeedRuns == 2

\* the loaded fleet configurations: the servers with their devices
FleetConfigs ==
    {<<>>,
     <<[ServerID |-> "s1", ServerName |-> "a", Devices |-> <<"d1">>]>>,
     <<[ServerID |-> "s1", ServerName |-> "a", Devices |-> <<"d1", "d2">>],
       [ServerID |-> "s2", ServerName |-> "b", Devices |-> <<>>]>>,
     <<[ServerID |-> "s1", ServerName |-> "a", Devices |-> <<>>],
       [ServerID |-> "s2", ServerName |-> "b", Devices |-> <<"d1">>]>>}

\* what the database file holds before the first call
SeedTables ==
    {[servers |-> {}, devices |-> {}],
     [servers |-> {}, devices |-> {[DeviceID |-> "d1", ServerID |-> "s0"]}],
     [servers |-> {[ServerID |-> "s1", ServerName |-> "old"]}, devices |-> {}]}

InitSeed ==
    /\ db \in {[cfg |-> c, servers |-> t.servers, devices |-> t.devices,
                pc |-> "idle", tx |-> [servers |-> {}, devices |-> {}],
                todo |-> <<>>, results |-> <<>>] :
                    c \in FleetConfigs, t \in SeedTables}
    /\ ctxDone = FALSE
    /\ CsvAndProtoParked
    /\ FleetParked
    /\ CollectorParked
    /\ PoolParked
    /\ StorageParked
    /\ DedupParked
    /\ SimParked

\* the device statements of one server, in the order of the inner loop
DeviceStatements(srv) ==
    [k \in 1..Len(srv.Devices) |->
        [table |-> "devices",
         row |-> [DeviceID |-> srv.Devices[k], ServerID |-> srv.ServerID]]]

\* the statements of the two loops: each server, followed by its devices
RECURSIVE Statements(_)
Statements(cfg) ==
    IF cfg = <<>> THEN <<>>
    ELSE <<[table |-> "servers",
            row |-> [ServerID |-> cfg[1].ServerID, ServerName |-> cfg[1].ServerName]]>>
            \o DeviceStatements(cfg[1]) \o Statements(Tail(cfg))

\* INSERT OR IGNORE INTO servers: a row whose key is taken is left out
InsertOrIgnore(rows, key, row) ==
    IF \E r \in rows : r[key] = row[key] THEN rows ELSE rows \cup {row}

\* INSERT OR REPLACE INTO devices: the row takes the place of the row of its key
InsertOrReplace(rows, key, row) ==
    {r \in rows : r[key] # row[key]} \cup {row}

\* the call returns: the transaction is over and the result is recorded
SeedReturn(result, serverRows, deviceRows) ==
    db' = [db EXCEPT !.pc = "idle", !.servers = serverRows, !.devices = deviceRows,
                     !.tx = [servers |-> {}, devices |-> {}], !.todo = <<>>,
                     !.results = Append(@, result)]

\* SELECT COUNT(*) FROM servers: with a row the call returns nil; else
\* db.SQL.Begin() opens the transaction
SeedBegin ==
    /\ db.pc = "idle"
    /\ Len(db.results) < MaxSeedRuns
    /\ IF db.servers # {}
       THEN SeedReturn("skipped", db.servers, db.devices)
       ELSE db' = [db EXCEPT !.pc = "tx",
                             !.tx = [servers |-> db.servers, devices |-> db.devices],
                             !.todo = Statements(db.cfg)]
    /\ UNCHANGED outsideDb

\* the COUNT query or Begin fails: the error is returned
SeedBeginFails ==
    /\ db.pc = "idle"
    /\ Len(db.results) < MaxSeedRuns
    /\ SeedReturn("error", db.servers, db.devices)
    /\ UNCHANGED outsideDb

\* tx.Exec of the next statement succeeds
SeedExec ==
    /\ db.pc = "tx"
    /\ db.todo # <<>>
    /\ LET st == Head(db.todo) IN
       db' = [db EXCEPT
                !.tx = IF st.table = "servers"
                       THEN [@ EXCEPT !.servers = InsertOrIgnore(@, "ServerID", st.row)]
                       ELSE [@ EXCEPT !.devices = InsertOrReplace(@, "DeviceID", st.row)],
                !.todo = Tail(@)]
    /\ UNCHANGED outsideDb

\* a failure without the deferred tx.Rollback(): what was written stays
SeedFailsWithoutRollback ==
    /\ db.pc = "tx"
    /\ SeedReturn("error", db.tx.servers, db.tx.devices)
    /\ UNCHANGED outsideDb

\* tx.Exec or tx.Commit fails: the deferred tx.Rollback() drops what the
\* transaction wrote
SeedFails ==
    /\ db.pc = "tx"
    /\ SeedReturn("error", db.servers, db.devices)
    /\ UNCHANGED outsideDb

\* tx.Commit() succeeds
SeedCommit ==
    /\ db.pc = "tx"
    /\ db.todo = <<>>
    /\ SeedReturn("ok", db.tx.servers, db.tx.devices)
    /\ UNCHANGED outsideDb

NextSeed ==
    \/ SeedBegin
    \/ SeedBeginFails
    \/ SeedExec
    \/ SeedFails
    \/ SeedCommit

SpecSeed == InitSeed /\ [][NextSeed]_vars

\* the rows of the configuration, written from the configuration itself
ConfiguredServers ==
    {[ServerID |-> db.cfg[i].ServerID, ServerName |-> db.cfg[i].ServerName] :
        i \in 1..Len(db.cfg)}

ConfiguredDevices ==
    UNION {{[DeviceID |-> db.cfg[i].Devices[k], ServerID |-> db.cfg[i].ServerID] :
                k \in 1..Len(db.cfg[i].Devices)} : i \in 1..Len(db.cfg)}

\* the committed tables change in one step only, from an empty servers table
\* to all rows of the configuration; a call that finds a servers row, fails
\* or follows a call that succeeded changes nothing
SeedStep ==
    /\ (db'.servers # db.servers \/ db'.devices # db.devices) =>
          /\ db.servers = {}
          /\ db'.results = Append(db.results, "ok")
          /\ db'.servers = ConfiguredServers
          /\ Cardinality(db'.servers) = Len(db.cfg)
          /\ ConfiguredDevices \subseteq db'.devices
          /\ \A d \in db'.devices :
                d \in ConfiguredDevices
                  \/ (d \in db.devices
                        /\ \A c \in ConfiguredDevices : c.DeviceID # d.DeviceID)
          /\ \A c \in ConfiguredDevices :
                Cardinality({d \in db'.devices : d.DeviceID = c.DeviceID}) = 1
    /\ db'.results = Append(db.results, "ok") =>
          db'.servers = ConfiguredServers /\ ConfiguredDevices \subseteq db'.devices
    /\ (db.servers # {} \/ (\E k \in 1..Len(db.results) : db.results[k] = "ok")) =>
          db'.servers = db.servers /\ db'.devices = db.devices

(* C39: initDatabaseFromConfig changes nothing when the servers table      *)
(* already has a row; otherwise it inserts one servers row per configured  *)
(* server and one devices row per configured device in one transaction, so *)
(* that either all rows are committed or, on any error, none; a second run *)
(* leaves the database unchanged.                                          *)
SeedsOnceAllOrNothing == [][SeedStep]_vars

\* a first call failed after some statement and left nothing, the second
\* committed two servers and two devices
SeededAfterRollbackSeen ==
    /\ db.results = <<"error", "ok">>
    /\ Cardinality(db.servers) = 2
    /\ Cardinality(db.devices) = 2

----------------------------------------------------------------------------
(* SpecSim: cmd/server run -- newSimulator, enableRTUModeFromConfig, Start  *)
(* and the deferred simulator.Close -- with the listener and the accepted   *)
(* connections of the modbus.Server that newSimulator starts.               *)

\* strings.ToLower on the modes the configurations use
ToLower(mode) == IF mode = "RTU" THEN "rtu" ELSE mode

\* the -rtu flag, [server] mode and serial_port, whether the listen address
\* can be bound, and whether the registers and the CSV file load
SimConfigs ==
    [rtuFlag : BOOLEAN, Mode : {"tcp", "rtu", "RTU"}, SerialPort : {"", "/dev/ttyS1"},
     bindOk : BOOLEAN, loadOk : BOOLEAN]

InitSim ==
    /\ sim \in {[cfg |-> c, pc |-> "new", tcpServer |-> "nil", rw |-> "nil",
                 rtuCancel |-> FALSE, rtu |-> "none", listener |-> "none",
                 conns |-> 0, ticks |-> 0, closed |-> FALSE, result |-> "none"] :
                    c \in SimConfigs}
    /\ ctxDone = FALSE
    /\ CsvAndProtoParked
    /\ FleetParked
    /\ CollectorParked
    /\ PoolParked
    /\ StorageParked
    /\ DedupParked
    /\ DbParked

outsideSim == <<tables, protoOnly, csvVars, fleetVars, collector, pool, storage, dedup, db>>

\* run: rtuMode || strings.ToLower(cfg.Server.Mode) == "rtu" || cfg.Server.SerialPort != ""
RtuRequested(cfg) == cfg.rtuFlag \/ ToLower(cfg.Mode) = "rtu" \/ cfg.SerialPort # ""

\* newSimulator: server.Listen, then the registers and the CSV file; every
\* error after Listen closes the server before it returns
newSimulator ==
    /\ sim.pc = "new"
    /\ sim' = IF ~sim.cfg.bindOk
              THEN [sim EXCEPT !.pc = "returned", !.result = "error"]
              ELSE IF ~sim.cfg.loadOk
              THEN [sim EXCEPT !.pc = "returned", !.result = "error",
                               !.listener = "closed"]
              ELSE [sim EXCEPT !.pc = "created", !.listener = "open",
                               !.tcpServer = "server", !.rw = "server"]
    /\ UNCHANGED <<ctxDone, outsideSim>>

\* enableRTUModeFromConfig: s.tcpServer = nil, s.rw = st, then the serial
\* parameters; run returns its error before sim.Close is deferred
enableRTUModeFromConfig ==
    /\ sim.pc = "created"
    /\ RtuRequested(sim.cfg)
    /\ sim' = IF sim.cfg.SerialPort = ""
              THEN [sim EXCEPT !.tcpServer = "nil", !.rw = "rtuStore",
                               !.pc = "returned", !.result = "error"]
              ELSE [sim EXCEPT !.tcpServer = "nil", !.rw = "rtuStore",
                               !.rtuCancel = TRUE, !.rtu = "serving", !.pc = "ready"]
    /\ UNCHANGED <<ctxDone, outsideSim>>

\* run: defer sim.Close(), go sim.Start(ctx)
GoStart ==
    /\ \/ sim.pc = "created" /\ ~RtuRequested(sim.cfg)
       \/ sim.pc = "ready"
    /\ sim' = [sim EXCEPT !.pc = "running"]
    /\ UNCHANGED <<ctxDone, outsideSim>>

\* Start: one tick of the ticker
SimTick ==
    /\ sim.pc = "running"
    /\ sim.ticks < MaxTicks
    /\ sim' = [sim EXCEPT !.ticks = @ + 1]
    /\ UNCHANGED <<ctxDone, outsideSim>>

\* Server.acceptLoop: a client connects and handleConnection serves it
SimAccept ==
    /\ sim.listener = "open"
    /\ sim.conns < MaxConns
    /\ sim' = [sim EXCEPT !.conns = @ + 1]
    /\ UNCHANGED <<ctxDone, outsideSim>>

\* Server.handleConnection returns when its client has gone
SimDisconnect ==
    /\ sim.conns > 0
    /\ sim' = [sim EXCEPT !.conns = @ - 1]
    /\ UNCHANGED <<ctxDone, outsideSim>>

\* SIGINT or SIGTERM: signal.NotifyContext cancels ctx
SimSignal ==
    /\ sim.pc = "running"
    /\ ~ctxDone
    /\ ctxDone' = TRUE
    /\ UNCHANGED <<sim, outsideSim>>

\* run returns on ctx.Done(); the deferred simulator.Close starts: Server.Close
\* closes the listener if s.tcpServer is set
SimClose ==
    /\ sim.pc = "running"
    /\ ctxDone
    /\ sim' = [sim EXCEPT !.pc = "closing",
                          !.listener = IF sim.tcpServer # "nil" THEN "closed" ELSE @]
    /\ UNCHANGED <<ctxDone, outsideSim>>

\* simulator.Close returns: Server.Close has waited for the connection
\* handlers (s.wg.Wait()), and s.rtuCancel has been called if set
SimCloseReturns ==
    /\ sim.pc = "closing"
    /\ sim.tcpServer = "nil" \/ sim.conns = 0
    /\ sim' = [sim EXCEPT !.pc = "returned", !.closed = TRUE, !.result = "nil",
                          !.rtu = IF sim.rtuCancel THEN "cancelled" ELSE @]
    /\ UNCHANGED <<ctxDone, outsideSim>>

NextSim ==
    \/ newSimulator
    \/ enableRTUModeFromConfig
    \/ GoStart
    \/ SimTick
    \/ SimAccept
    \/ SimDisconnect
    \/ SimSignal
    \/ SimClose
    \/ SimCloseReturns

SpecSim == InitSim /\ [][NextSim]_vars

\* C40: in RTU mode the listener that newSimulator opened is closed when RTU
\* mode is enabled or, at the latest, when simulator.Close has returned: once
\* Close has returned on a simulator in RTU mode, no Modbus TCP listener is
\* open and no TCP connection is being served.
RtuModeHasNoListener ==
    (sim.pc # "off" /\ sim.closed /\ sim.rw = "rtuStore")
        => (sim.listener # "open" /\ sim.conns = 0)

====
